---- MODULE Spec2Model ----
(***************************************************************************)
(* Model of OpenApiLibCore: value_utils (valid / invalid value synthesis)  *)
(* and dto_base (schema resolution, relations, Dto.get_invalidated_data).  *)
(*                                                                         *)
(* Python values are tagged records [k |-> kind, v |-> payload].  The      *)
(* functions that draw random numbers (choice, randint, uuid4, shuffle)    *)
(* are modelled as the set of outcomes they can produce; an exception is   *)
(* the outcome Raise(name).                                                *)
(***************************************************************************)
EXTENDS Integers, Sequences, FiniteSets, TLC

VARIABLES op, args, result, dto, dto0, relations, DEFAULT_ID_PROPERTY_NAME, instances

vars == <<op, args, result, dto, dto0, relations, DEFAULT_ID_PROPERTY_NAME, instances>>

(***************************************************************************)
(* Bounds of the model.                                                    *)
(***************************************************************************)
MaxNum == 3
MaxItems == 2
\* nesting depth of the composition keywords in the schemas that are resolved
MaxDepth == 2
\* floats are held in units of 1 / FloatScale
FloatScale == 4

(***************************************************************************)
(* Python values.                                                          *)
(***************************************************************************)
None == [k |-> "none", v |-> 0]
IGNORE == [k |-> "IGNORE", v |-> 0]
NOT_SET == [k |-> "NOT_SET", v |-> 0]
Bool(b) == [k |-> "bool", v |-> b]
I(n) == [k |-> "int", v |-> n]
\* a float, held in quarters: F(q) is the number q / FloatScale
F(q) == [k |-> "float", v |-> q]
Str(s) == [k |-> "str", v |-> s]
List(s) == [k |-> "list", v |-> s]
Dict(f) == [k |-> "dict", v |-> f]
Bytes(s) == [k |-> "bytes", v |-> s]
\* an integer outside the signed 32-bit range: sign * 2^exp + d
Wide(sign, exp, d) == [k |-> "wide", v |-> <<sign, exp, d>>]
Raise(e) == [k |-> "raise", v |-> e]

True == Bool(TRUE)
False == Bool(FALSE)
EmptyDict == Dict(<<>>)

IsRaise(x) == x.k = "raise"

\* bool(x) of Python
Truthy(x) ==
    CASE x.k = "none" -> FALSE
      [] x.k = "bool" -> x.v
      [] x.k = "int" -> x.v # 0
      [] x.k = "float" -> x.v # 0
      [] x.k = "str" -> x.v # ""
      [] x.k = "list" -> Len(x.v) > 0
      [] x.k = "dict" -> DOMAIN x.v # {}
      [] OTHER -> TRUE

\* dict.get(key, default)
Get(d, key, default) == IF key \in DOMAIN d THEN d[key] ELSE default

\* the set of elements of a sequence
Elems(s) == {s[i] : i \in 1..Len(s)}

\* seq[0:n] of Python for n >= 0, on a list payload or on a string
Prefix(s, n) == SubSeq(s, 1, IF n < Len(s) THEN n ELSE Len(s))

(***************************************************************************)
(* Integers.  Python integers are unbounded; the values of the signed      *)
(* 32-bit range are held as they are, and the values around 2^31 and 2^63  *)
(* beyond it as Wide(sign, exp, d) with a small d.                         *)
(***************************************************************************)
max_int32 == 2147483647
min_int32 == -2147483647 - 1
max_int64 == Wide(1, 63, -1)
min_int64 == Wide(-1, 63, 0)

IntLess(x, y) ==
    LET \* position of an integer on the number line: <<zone, offset in the zone>>
        Zone(z) ==
            IF z.k = "int" THEN <<0, z.v>>
            ELSE <<z.v[1] * (IF z.v[2] = 63 THEN 2 ELSE 1), z.v[3]>>
    IN
    \/ Zone(x)[1] < Zone(y)[1]
    \/ Zone(x)[1] = Zone(y)[1] /\ Zone(x)[2] < Zone(y)[2]

IntLeq(x, y) == x = y \/ IntLess(x, y)

\* x + 1
Inc(x) ==
    CASE x.k = "int" /\ x.v < max_int32 -> I(x.v + 1)
      [] x.k = "int" /\ x.v = max_int32 -> Wide(1, 31, 0)
      [] x.k = "wide" /\ x.v = <<-1, 31, -1>> -> I(min_int32)
      [] OTHER -> Wide(x.v[1], x.v[2], x.v[3] + 1)

\* x - 1
Dec(x) ==
    CASE x.k = "int" /\ x.v > min_int32 -> I(x.v - 1)
      [] x.k = "int" /\ x.v = min_int32 -> Wide(-1, 31, -1)
      [] x.k = "wide" /\ x.v = <<1, 31, 0>> -> I(max_int32)
      [] OTHER -> Wide(x.v[1], x.v[2], x.v[3] - 1)

\* random.randint(a, b): any integer of [a, b], ValueError on an empty range.
\* The outcomes kept are the ends of the range, their neighbours and zero.
randint(a, b) ==
    IF IntLess(b, a) THEN {Raise("ValueError")}
    ELSE {x \in {a, b, Inc(a), Dec(b), I(0)} : IntLeq(a, x) /\ IntLeq(x, b)}

(***************************************************************************)
(* Numbers: abs, + and - 1 / + 1 over int and float.                       *)
(***************************************************************************)

IsNum(x) == x.k \in {"int", "float"}

\* a number in units of 1 / FloatScale
ToQ(x) == IF x.k = "int" THEN FloatScale * x.v ELSE x.v

\* x + y of Python: numbers add, strings and lists concatenate
PyAdd(x, y) ==
    LET NumAdd(a, b) ==
            IF a.k = "int" /\ b.k = "int" THEN I(a.v + b.v) ELSE F(ToQ(a) + ToQ(b))
    IN
    CASE IsNum(x) /\ IsNum(y) -> NumAdd(x, y)
      [] x.k = "str" /\ y.k = "str" -> Str(x.v \o y.v)
      [] x.k = "list" /\ y.k = "list" -> List(x.v \o y.v)
      [] x.k = "raise" -> x
      [] y.k = "raise" -> y
      [] OTHER -> Raise("TypeError")

\* abs(x) of Python
PyAbs(x) ==
    LET NumAbs(q) ==
            LET Abs(n) == IF n < 0 THEN -n ELSE n
            IN  [k |-> q.k, v |-> Abs(q.v)]
    IN
    CASE IsNum(x) -> NumAbs(x)
      [] x.k = "raise" -> x
      [] OTHER -> Raise("TypeError")

\* x in values
PyIn(x, values) ==
    LET \* a == b of Python: an int equals the float of the same value
        PyEq(a, b) == IF IsNum(a) /\ IsNum(b) THEN ToQ(a) = ToQ(b) ELSE a = b
    IN
    \E i \in 1..Len(values) : PyEq(x, values[i])

(***************************************************************************)
(* value_utils.get_random_int                                              *)
(***************************************************************************)
\* get_random_int without the two exclusive flags
get_random_int_inclusive(value_schema) ==
    LET property_format == Get(value_schema, "format", Str("int32"))
        min_int == IF property_format = Str("int64") THEN min_int64 ELSE I(min_int32)
        max_int == IF property_format = Str("int64") THEN max_int64 ELSE I(max_int32)
    IN  randint(Get(value_schema, "minimum", min_int),
                Get(value_schema, "maximum", max_int))

get_random_int(value_schema) ==
    LET property_format == Get(value_schema, "format", Str("int32"))
        min_int == IF property_format = Str("int64") THEN min_int64 ELSE I(min_int32)
        max_int == IF property_format = Str("int64") THEN max_int64 ELSE I(max_int32)
        minimum0 == Get(value_schema, "minimum", min_int)
        maximum0 == Get(value_schema, "maximum", max_int)
        minimum == IF Truthy(Get(value_schema, "exclusiveMinimum", False))
                   THEN Inc(minimum0) ELSE minimum0
        maximum == IF Truthy(Get(value_schema, "exclusiveMaximum", False))
                   THEN Dec(maximum0) ELSE maximum0
    IN  randint(minimum, maximum)

(***************************************************************************)
(* value_utils.get_value_out_of_bounds                                     *)
(*                                                                         *)
(* An outcome is [ret |-> returned value, cur |-> current_value as the     *)
(* call leaves it]: the array branch appends to current_value in place.    *)
(***************************************************************************)
\* x - 1 and x + 1 on int and float
NumDec(x) == IF x.k = "float" THEN F(x.v - FloatScale) ELSE Dec(x)
NumInc(x) == IF x.k = "float" THEN F(x.v + FloatScale) ELSE Inc(x)

\* base after n rounds of base.append(choice(base)); the appended items are
\* drawn from the list itself, so from the items it started with
RECURSIVE GrowList(_, _)
GrowList(base, n) ==
    IF n <= 0 THEN {base}
    ELSE UNION {GrowList(Append(base, e), n - 1) : e \in Elems(base)}

\* base after n rounds of base += choice(base)
RECURSIVE GrowStr(_, _)
GrowStr(base, n) ==
    LET \* the single characters of a string
        Chars(s) == {SubSeq(s, i, i) : i \in 1..Len(s)}
    IN
    IF n <= 0 THEN {base}
    ELSE UNION {GrowStr(base \o c, n - 1) : c \in Chars(base)}

Out(ret, cur) == [ret |-> ret, cur |-> cur]

out_of_bounds_number(value_schema, current_value) ==
    LET minimum == Get(value_schema, "minimum", None)
        maximum == Get(value_schema, "maximum", None)
        exclusive_minimum == Get(value_schema, "exclusiveMinimum", None)
        exclusive_maximum == Get(value_schema, "exclusiveMaximum", None)
    IN  CASE Truthy(minimum) -> {Out(NumDec(minimum), current_value)}
          [] Truthy(maximum) -> {Out(NumInc(maximum), current_value)}
          [] Truthy(exclusive_minimum) -> {Out(exclusive_minimum, current_value)}
          [] Truthy(exclusive_maximum) -> {Out(exclusive_maximum, current_value)}
          [] OTHER -> {Out(None, current_value)}

out_of_bounds_array(value_schema, current_value) ==
    LET \* minimum := value_schema.get("minItems", 0) > 0 binds the comparison
        minimum == Get(value_schema, "minItems", I(0)).v > 0
        maximum == Get(value_schema, "maxItems", None)
    IN  CASE minimum ->
               \* current_value[0 : True - 1]
               {Out([k |-> current_value.k, v |-> Prefix(current_value.v, 0)],
                    current_value)}
          [] Truthy(maximum) ->
               IF Truthy(current_value)
               THEN IF current_value.k = "list"
                    THEN {Out(List(g), List(g)) :
                            g \in GrowList(current_value.v,
                                           maximum.v + 1 - Len(current_value.v))}
                    ELSE {Out(Raise("AttributeError"), current_value)}
               ELSE {Out(List(g), current_value) :
                       g \in GrowList(<<Str("x")>>, maximum.v)}
          [] OTHER -> {Out(None, current_value)}

\* the string branch with the bounds tested on presence: a maxLength of 0 is
\* a bound to exceed
out_of_bounds_string_present(value_schema, current_value) ==
    IF "maxLength" \in DOMAIN value_schema
    THEN {Out(Str("x"), current_value)}
    ELSE {Out(None, current_value)}

out_of_bounds_string(value_schema, current_value) ==
    LET minimum == Get(value_schema, "minLength", I(0))
        maximum == Get(value_schema, "maxLength", None)
    IN  CASE Truthy(minimum) ->
               {Out([k |-> current_value.k,
                     v |-> Prefix(current_value.v, minimum.v - 1)], current_value)}
          [] Truthy(maximum) ->
               IF Truthy(current_value)
               THEN IF current_value.k = "str"
                    THEN {Out(Str(g), current_value) :
                            g \in GrowStr(current_value.v,
                                          maximum.v + 1 - Len(current_value.v))}
                    ELSE {Out(Raise("TypeError"), current_value)}
               ELSE {Out(Str(g), current_value) : g \in GrowStr("x", maximum.v)}
          [] OTHER -> {Out(None, current_value)}

get_value_out_of_bounds(value_schema, current_value) ==
    IF "type" \notin DOMAIN value_schema
    THEN {Out(Raise("KeyError"), current_value)}
    ELSE LET value_type == value_schema["type"]
         IN  CASE value_type \in {Str("integer"), Str("number")} ->
                    out_of_bounds_number(value_schema, current_value)
               [] value_type = Str("array") ->
                    out_of_bounds_array(value_schema, current_value)
               [] value_type = Str("string") ->
                    out_of_bounds_string(value_schema, current_value)
               [] OTHER -> {Out(None, current_value)}

(***************************************************************************)
(* value_utils.get_invalid_value_from_constraint                           *)
(***************************************************************************)

Keys(d) ==
    LET \* the order in which the keys of a dict are iterated
        KeyOrder == <<"a", "b", "c", "id", "name", "age", "tags">>
    IN
    SelectSeq(KeyOrder, LAMBDA key : key \in DOMAIN d)

json_type_name_of_python_type(value) ==
    CASE value.k = "str" -> Str("string")
      [] value.k = "bool" -> Str("boolean")
      [] value.k = "int" -> Str("integer")
      [] value.k = "float" -> Str("number")
      [] value.k = "list" -> Str("array")
      [] value.k = "dict" -> Str("object")
      [] OTHER -> Raise("ValueError")

\* the items that iterating over a value yields, as a list
Iter(value) ==
    CASE value.k = "list" -> value
      [] value.k = "str" -> List([i \in 1..Len(value.v) |-> Str(SubSeq(value.v, i, i))])
      [] value.k = "dict" -> List([i \in 1..Len(Keys(value.v)) |-> Str(Keys(value.v)[i])])
      [] OTHER -> Raise("TypeError")

\* the first exception among the items of a sequence, None when there is none
FirstRaise(seq) ==
    IF \E i \in 1..Len(seq) : IsRaise(seq[i])
    THEN seq[CHOOSE i \in 1..Len(seq) :
                 IsRaise(seq[i]) /\ \A j \in 1..(i - 1) : ~IsRaise(seq[j])]
    ELSE None

\* the sum without abs
RECURSIVE SumSigned(_, _, _)
SumSigned(invalid_value, values, i) ==
    IF i > Len(values) THEN invalid_value
    ELSE SumSigned(PyAdd(invalid_value, values[i]), values, i + 1)

\* invalid_value = abs(invalid_value) + abs(value) for value in values[i..]
RECURSIVE SumAbs(_, _, _)
SumAbs(invalid_value, values, i) ==
    IF i > Len(values) THEN invalid_value
    ELSE SumAbs(PyAdd(PyAbs(invalid_value), PyAbs(values[i])), values, i + 1)

\* invalid_value = invalid_value + value for value in values[i..]
RECURSIVE SumAll(_, _, _)
SumAll(invalid_value, values, i) ==
    IF i > Len(values) THEN invalid_value
    ELSE SumAll(PyAdd(invalid_value, values[i]), values, i + 1)

RECURSIVE get_invalid_value_from_constraint(_, _)
\* IGNORE looked for in the first place of the list only, and nothing else
\* invalidated
ignore_first_only(values_from_constraint, value_type) ==
    IF Len(values_from_constraint) > 0 /\ values_from_constraint[1] = IGNORE
    THEN IGNORE ELSE None

get_invalid_value_from_constraint(values_from_constraint, value_type) ==
    LET n == Len(values_from_constraint)
        last == values_from_constraint[n]
        \* the item invalidated on its own, under the json type of its Python type
        item(value) ==
            LET json_type_of_value == json_type_name_of_python_type(value)
            IN  IF IsRaise(json_type_of_value) THEN json_type_of_value
                ELSE get_invalid_value_from_constraint(<<value>>, json_type_of_value)
        invalid_values == SubSeq(values_from_constraint \o values_from_constraint,
                                 1, 2 * n - 1)
    IN  CASE \E i \in 1..n : values_from_constraint[i] = IGNORE -> IGNORE
          [] n = 1 /\ value_type = Str("boolean") -> Bool(~Truthy(last))
          [] \/ value_type \notin {Str("string"), Str("integer"), Str("number"),
                                   Str("array"), Str("object")}
             \/ n = 0 -> None
          [] value_type = Str("object") /\ last.k # "dict" -> Raise("AttributeError")
          [] value_type = Str("object") ->
               LET keys == Keys(last.v)
                   items == [i \in 1..Len(keys) |-> item(last.v[keys[i]])]
               IN  IF FirstRaise(items) # None THEN FirstRaise(items)
                   ELSE Dict([key \in DOMAIN last.v |-> item(last.v[key])])
          [] value_type = Str("array") /\ IsRaise(Iter(last)) -> Iter(last)
          [] value_type = Str("array") ->
               LET valid_array == Iter(last).v
                   items == [i \in 1..Len(valid_array) |-> item(valid_array[i])]
               IN  IF FirstRaise(items) # None THEN FirstRaise(items)
                   ELSE List(items)
          [] value_type \in {Str("integer"), Str("number")} ->
               LET invalid_value == SumAbs(last, invalid_values, 1)
               IN  IF IsRaise(invalid_value) \/ Truthy(invalid_value)
                   THEN invalid_value
                   ELSE PyAdd(invalid_value, I(1))
          [] OTHER ->
               LET invalid_value == SumAll(last, invalid_values, 1)
               IN  IF IsRaise(invalid_value) \/ Truthy(invalid_value)
                   THEN invalid_value
                   ELSE None

(***************************************************************************)
(* value_utils.get_invalid_value_from_enum                                 *)
(***************************************************************************)
\* invalid_value += abs(value) + abs(value) for value in values[i..]
RECURSIVE EnumSumAbs(_, _, _)
EnumSumAbs(invalid_value, values, i) ==
    IF i > Len(values) THEN invalid_value
    ELSE EnumSumAbs(PyAdd(invalid_value, PyAdd(PyAbs(values[i]), PyAbs(values[i]))),
                    values, i + 1)

\* invalid_value += value + value for value in values[i..]
RECURSIVE EnumSumAll(_, _, _)
EnumSumAll(invalid_value, values, i) ==
    IF i > Len(values) THEN invalid_value
    ELSE EnumSumAll(PyAdd(invalid_value, PyAdd(values[i], values[i])), values, i + 1)

\* invalid_value.extend(value) twice for value in values[i..]
RECURSIVE EnumExtend(_, _, _)
EnumExtend(invalid_value, values, i) ==
    IF i > Len(values) THEN invalid_value
    ELSE EnumExtend(PyAdd(invalid_value, PyAdd(Iter(values[i]), Iter(values[i]))),
                    values, i + 1)

\* the loops over the enum values (i) and over the keys of invalid_value (j):
\* invalid_value[key] = value.get(key), returned as soon as it is not in values
RECURSIVE EnumObject(_, _, _, _, _)
EnumObject(invalid_value, values, keys, i, j) ==
    CASE i > Len(values) -> invalid_value
      [] j > Len(keys) -> EnumObject(invalid_value, values, keys, i + 1, 1)
      [] OTHER ->
           LET updated == Dict([invalid_value.v EXCEPT
                                  ![keys[j]] = Get(values[i].v, keys[j], None)])
           IN  IF ~PyIn(updated, values) THEN updated
               ELSE EnumObject(updated, values, keys, i, j + 1)

get_invalid_value_from_enum(values, value_type) ==
    CASE value_type = Str("string") -> EnumSumAll(Str(""), values, 1)
      [] value_type \in {Str("integer"), Str("number")} -> EnumSumAbs(I(0), values, 1)
      [] value_type = Str("array") -> EnumExtend(List(<<>>), values, 1)
      [] value_type = Str("object") ->
           IF \E i \in 1..Len(values) : values[i].k # "dict"
           THEN Raise(IF values[1].k # "dict" THEN "TypeError" ELSE "AttributeError")
           ELSE EnumObject(values[1], values, Keys(values[1].v), 1, 1)
      [] OTHER -> None

(***************************************************************************)
(* value_utils.get_invalid_value                                           *)
(***************************************************************************)
\* the tokens FAKE.fake.uuid4() can return
UuidSamples ==
    {Str("0f8fad5b-d9cb-469f-a165-70867728950e"),
     Str("7c9e6679-7425-40de-944b-e07fc1f90ae7")}

\* one of the wrong-typed values in place of the list of them
OneWrongTypeForString == Str("null")

\* the value the code returns for a string schema that offers nothing to violate
WrongTypeForString ==
    List(<<Dict([invalid |-> List(<<None, False>>)]), Str("null"), None, True>>)

\* get_invalid_value without its first strategy: values_from_constraint is
\* not looked at
get_invalid_value_without_constraint(value_schema, current_value, values_from_constraint) ==
    IF "type" \notin DOMAIN value_schema
    THEN {Out(Raise("KeyError"), current_value)}
    ELSE
    LET value_type == value_schema["type"]
        enum_values == Get(value_schema, "enum", None)
        from_enum ==
            IF Truthy(enum_values)
            THEN get_invalid_value_from_enum(enum_values.v, value_type)
            ELSE None
        out_of_bounds == get_value_out_of_bounds(value_schema, current_value)
    IN  CASE from_enum # None -> {Out(from_enum, current_value)}
          [] OTHER ->
               {o \in out_of_bounds : o.ret # None}
               \cup
               IF \E o \in out_of_bounds : o.ret = None
               THEN IF value_type = Str("string")
                    THEN {Out(WrongTypeForString, current_value)}
                    ELSE {Out(u, current_value) : u \in UuidSamples}
               ELSE {}

get_invalid_value(value_schema, current_value, values_from_constraint) ==
    IF "type" \notin DOMAIN value_schema
    THEN {Out(Raise("KeyError"), current_value)}
    ELSE
    LET value_type == value_schema["type"]
        from_constraint ==
            IF Len(values_from_constraint) > 0
            THEN get_invalid_value_from_constraint(values_from_constraint, value_type)
            ELSE None
        enum_values == Get(value_schema, "enum", None)
        from_enum ==
            IF Truthy(enum_values)
            THEN get_invalid_value_from_enum(enum_values.v, value_type)
            ELSE None
        out_of_bounds == get_value_out_of_bounds(value_schema, current_value)
    IN  CASE from_constraint # None -> {Out(from_constraint, current_value)}
          [] from_enum # None -> {Out(from_enum, current_value)}
          [] OTHER ->
               {o \in out_of_bounds : o.ret # None}
               \cup
               IF \E o \in out_of_bounds : o.ret = None
               THEN IF value_type = Str("string")
                    THEN {Out(WrongTypeForString, current_value)}
                    ELSE {Out(u, current_value) : u \in UuidSamples}
               ELSE {}

(***************************************************************************)
(* value_utils.get_valid_value and the generators it dispatches to         *)
(***************************************************************************)
\* random.uniform(a, b) for a <= b: a float of [a, b], in steps of 1 / FloatScale
uniform(a, b) == {F(q) : q \in ToQ(a)..ToQ(b)}

\* get_random_float that returns uniform(minimum, maximum) under an exclusive
\* flag too
get_random_float_inclusive(value_schema) ==
    LET minimum0 == Get(value_schema, "minimum", None)
        maximum0 == Get(value_schema, "maximum", None)
        minimum == CASE minimum0 # None -> minimum0
                     [] maximum0 = None -> F(-FloatScale)
                     [] OTHER -> F(ToQ(maximum0) - FloatScale)
        maximum == CASE maximum0 # None -> maximum0
                     [] minimum0 = None -> F(FloatScale)
                     [] OTHER -> F(ToQ(minimum0) + FloatScale)
        exclusive == IF Truthy(Get(value_schema, "exclusiveMinimum", False))
                     THEN Get(value_schema, "exclusiveMinimum", False)
                     ELSE Get(value_schema, "exclusiveMaximum", False)
    IN  CASE minimum0 # None /\ ToQ(maximum) < ToQ(minimum) -> {Raise("ValueError")}
          [] Truthy(exclusive) /\ ToQ(minimum) = ToQ(maximum) -> {Raise("ValueError")}
          [] OTHER -> uniform(minimum, maximum)

get_random_float(value_schema) ==
    LET minimum0 == Get(value_schema, "minimum", None)
        maximum0 == Get(value_schema, "maximum", None)
        minimum == CASE minimum0 # None -> minimum0
                     [] maximum0 = None -> F(-FloatScale)
                     [] OTHER -> F(ToQ(maximum0) - FloatScale)
        maximum == CASE maximum0 # None -> maximum0
                     [] minimum0 = None -> F(FloatScale)
                     [] OTHER -> F(ToQ(minimum0) + FloatScale)
        exclusive == IF Truthy(Get(value_schema, "exclusiveMinimum", False))
                     THEN Get(value_schema, "exclusiveMinimum", False)
                     ELSE Get(value_schema, "exclusiveMaximum", False)
    IN  CASE minimum0 # None /\ ToQ(maximum) < ToQ(minimum) -> {Raise("ValueError")}
          [] Truthy(exclusive) /\ ToQ(minimum) = ToQ(maximum) -> {Raise("ValueError")}
          [] Truthy(exclusive) ->
               {r \in uniform(minimum, maximum) :
                    ToQ(minimum) < ToQ(r) /\ ToQ(r) < ToQ(maximum)}
          [] OTHER -> uniform(minimum, maximum)

\* the strings the fake-data provider can return for a format
NameSamples == {"Ann Lee", "Bo Hu"}

fake_string(format_) ==
    CASE format_ = Str("date") -> {"2001-02-03", "1999-12-31"}
      [] format_ = Str("date-time") -> {"2001-02-03T04:05:06Z"}
      [] format_ = Str("email") -> {"ann@example.org"}
      [] format_ = Str("ipv4") -> {"192.0.2.1", "10.0.0.42"}
      [] format_ = Str("name") -> NameSamples
      [] OTHER -> {u.v : u \in UuidSamples}

\* while len(value) < minimum: value = value + FAKE.fake.name()
RECURSIVE PadWithNames(_, _)
PadWithNames(value, minimum) ==
    IF Len(value) >= minimum THEN {value}
    ELSE UNION {PadWithNames(value \o name, minimum) : name \in NameSamples}

\* get_random_string without the cut to the maximum length
get_random_string_uncut(value_schema) ==
    LET pattern == Get(value_schema, "pattern", None)
        minimum == Get(value_schema, "minLength", I(0)).v
        format_ == Get(value_schema, "format", Str("uuid"))
    IN  CASE Truthy(pattern) -> {pattern}
          [] format_ = Str("byte") -> {Bytes(u.v) : u \in UuidSamples}
          [] OTHER ->
               {Str(padded) :
                    padded \in UNION {PadWithNames(value, minimum) :
                                          value \in fake_string(format_)}}

get_random_string(value_schema) ==
    LET pattern == Get(value_schema, "pattern", None)
        minimum == Get(value_schema, "minLength", I(0)).v
        maximum0 == Get(value_schema, "maxLength", I(36)).v
        maximum == IF minimum > maximum0 THEN minimum ELSE maximum0
        format_ == Get(value_schema, "format", Str("uuid"))
    IN  CASE Truthy(pattern) ->
               \* rstr.xeger(pattern): the patterns of the model are literals
               {pattern}
          [] format_ = Str("byte") -> {Bytes(u.v) : u \in UuidSamples}
          [] OTHER ->
               {Str(Prefix(padded, maximum)) :
                    padded \in UNION {PadWithNames(value, minimum) :
                                          value \in fake_string(format_)}}

RECURSIVE get_valid_value(_)
get_random_array(value_schema) ==
    LET \* the lists of n items, each item one of outcomes; the first exception among
        \* the items is the outcome of the whole
        ListsOf(outcomes, n) ==
            {IF FirstRaise(items) # None THEN FirstRaise(items) ELSE List(items) :
                 items \in [1..n -> outcomes]}
    IN
    LET minimum == Get(value_schema, "minItems", I(0)).v
        maximum0 == Get(value_schema, "maxItems", I(1)).v
        maximum == IF minimum > maximum0 THEN minimum ELSE maximum0
    IN  IF "items" \notin DOMAIN value_schema THEN {Raise("KeyError")}
        ELSE ListsOf(get_valid_value(value_schema["items"].v), maximum)

\* get_valid_value that dispatches on the type and never looks at the enum
get_valid_value_by_type(value_schema) ==
    CASE "type" \notin DOMAIN value_schema -> {Raise("KeyError")}
      [] value_schema["type"] = Str("boolean") -> {True, False}
      [] value_schema["type"] = Str("integer") -> get_random_int(value_schema)
      [] value_schema["type"] = Str("number") -> get_random_float(value_schema)
      [] value_schema["type"] = Str("string") -> get_random_string(value_schema)
      [] value_schema["type"] = Str("array") -> get_random_array(value_schema)
      [] OTHER -> {Raise("NotImplementedError")}

get_valid_value(value_schema) ==
    LET from_enum == Get(value_schema, "enum", None)
    IN  CASE Truthy(from_enum) -> Elems(from_enum.v)
          [] "type" \notin DOMAIN value_schema -> {Raise("KeyError")}
          [] value_schema["type"] = Str("boolean") -> {True, False}
          [] value_schema["type"] = Str("integer") -> get_random_int(value_schema)
          [] value_schema["type"] = Str("number") -> get_random_float(value_schema)
          [] value_schema["type"] = Str("string") -> get_random_string(value_schema)
          [] value_schema["type"] = Str("array") -> get_random_array(value_schema)
          [] OTHER -> {Raise("NotImplementedError")}

(***************************************************************************)
(* dto_base.merge_schemas and dto_base.resolve_schema, on dicts held as    *)
(* Dict values.                                                            *)
(***************************************************************************)
\* dict.get in place of dict.pop: the key stays in the dict
WithoutNothing(d, key) == d

\* the dict without a key: what is left after dict.pop(key, default)
Without(d, key) == [x \in DOMAIN d \ {key} |-> d[x]]

\* the first exception among the values of a dict, None when there is none
FirstRaiseIn(d) ==
    IF \E key \in DOMAIN d : IsRaise(d[key])
    THEN d[CHOOSE key \in DOMAIN d : IsRaise(d[key])]
    ELSE None

merge_schemas(first, second) ==
    LET merged_value(key) ==
            CASE key \notin DOMAIN first.v -> second.v[key]
              [] key \notin DOMAIN second.v -> first.v[key]
              [] second.v[key].k = "dict" ->
                   \* merged_schema[key].update(value)
                   IF first.v[key].k = "dict"
                   THEN Dict([x \in DOMAIN first.v[key].v \cup DOMAIN second.v[key].v |->
                                IF x \in DOMAIN second.v[key].v
                                THEN second.v[key].v[x] ELSE first.v[key].v[x]])
                   ELSE Raise("AttributeError")
              [] second.v[key].k = "list" ->
                   \* merged_schema[key].extend(value)
                   IF first.v[key].k = "list"
                   THEN List(first.v[key].v \o second.v[key].v)
                   ELSE Raise("AttributeError")
              [] OTHER -> first.v[key]
        merged_schema == [key \in DOMAIN first.v \cup DOMAIN second.v |-> merged_value(key)]
    IN  CASE IsRaise(first) -> first
          [] IsRaise(second) -> second
          [] FirstRaiseIn(merged_schema) # None -> FirstRaiseIn(merged_schema)
          [] OTHER -> Dict(merged_schema)

RECURSIVE resolve_schema(_)

\* for schema_part in schema_parts[i..]:
\*     resolved_schema = merge_schemas(resolved_schema, resolve_schema(schema_part))
RECURSIVE MergeParts(_, _, _)
MergeParts(resolved_schema, schema_parts, i) ==
    IF i > Len(schema_parts) \/ IsRaise(resolved_schema) THEN resolved_schema
    ELSE MergeParts(merge_schemas(resolved_schema, resolve_schema(schema_parts[i])),
                    schema_parts, i + 1)

\* the loop over the anyOf / oneOf parts: a part with a type is appended to
\* the types list, any other part is merged
RECURSIVE CollectTypes(_, _, _)
CollectTypes(resolved_schema, schema_parts, i) ==
    IF i > Len(schema_parts) \/ IsRaise(resolved_schema) THEN resolved_schema
    ELSE LET resolved_part == resolve_schema(schema_parts[i])
             next ==
                 CASE IsRaise(resolved_part) -> resolved_part
                   [] "type" \notin DOMAIN resolved_part.v ->
                        merge_schemas(resolved_schema, resolved_part)
                   [] "types" \notin DOMAIN resolved_schema.v ->
                        Dict([x \in DOMAIN resolved_schema.v \cup {"types"} |->
                                IF x = "types" THEN List(<<resolved_part>>)
                                ELSE resolved_schema.v[x]])
                   [] resolved_schema.v["types"].k # "list" -> Raise("AttributeError")
                   [] OTHER ->
                        Dict([resolved_schema.v EXCEPT
                                !["types"] = List(Append(@.v, resolved_part))])
         IN  CollectTypes(next, schema_parts, i + 1)

\* the parts to loop over, held in a list; looping over anything else that is
\* not empty fails
PartsOf(parts) ==
    CASE parts.k = "list" -> parts.v
      [] ~IsRaise(Iter(parts)) -> Iter(parts).v
      [] OTHER -> <<Raise("TypeError")>>

\* the loop over the items left out: nested compositions stay as they are
resolve_nested_skipped(schema) == schema.v

\* for key, value in resolved_schema.items(): the dict-typed values resolved
resolve_nested(schema) ==
    [key \in DOMAIN schema.v |->
        IF schema.v[key].k = "dict" THEN resolve_schema(schema.v[key])
        ELSE schema.v[key]]

resolve_schema(schema) ==
    IF schema.k # "dict" THEN Raise("AttributeError")
    ELSE
    LET nested == resolve_nested(schema)
        all_of == Get(nested, "allOf", None)
        popped_all_of == Dict(Without(nested, "allOf"))
        merged == IF Truthy(all_of)
                  THEN MergeParts(popped_all_of, PartsOf(all_of), 1)
                  ELSE popped_all_of
        any_of == Get(merged.v, "anyOf", List(<<>>))
        one_of == Get(merged.v, "oneOf", List(<<>>))
        popped == Dict(Without(Without(merged.v, "anyOf"), "oneOf"))
        schema_parts == IF Truthy(any_of) THEN any_of ELSE one_of
    IN  CASE FirstRaiseIn(nested) # None -> FirstRaiseIn(nested)
          [] IsRaise(merged) -> merged
          [] OTHER -> CollectTypes(popped, PartsOf(schema_parts), 1)

(***************************************************************************)
(* dto_base.merge_schemas and dto_base.resolve_schema on objects in        *)
(* memory.  The memory h is the sequence of the dicts and lists allocated  *)
(* so far, the address of an object is its index; an item of a dict or of  *)
(* a list is a value that is not a container, or Ref(a) for the container  *)
(* at address a.  An operation returns the memory it leaves (h) and what   *)
(* it returns or raises (r).                                               *)
(***************************************************************************)
Ref(a) == [k |-> "ref", v |-> a]

\* isinstance(item, dict) / isinstance(item, list)
IsA(h, item, kind) == item.k = "ref" /\ h[item.v].k = kind

\* the keys of a dict in the order a loop goes over them
RECURSIVE KeySeq(_)
KeySeq(S) ==
    IF S = {} THEN <<>>
    ELSE LET x == CHOOSE x \in S : TRUE IN <<x>> \o KeySeq(S \ {x})

\* d[key] = item
SetKey(d, key, item) == [x \in DOMAIN d \cup {key} |-> IF x = key THEN item ELSE d[x]]

\* the value an item stands for, the containers it refers to read in full
RECURSIVE ValueAt(_, _)
ValueAt(h, item) ==
    CASE item.k # "ref" -> item
      [] h[item.v].k = "dict" ->
           Dict([key \in DOMAIN h[item.v].v |-> ValueAt(h, h[item.v].v[key])])
      [] OTHER ->
           List([i \in 1..Len(h[item.v].v) |-> ValueAt(h, h[item.v].v[i])])

\* the addresses of the containers reached from an item
RECURSIVE Reach(_, _)
Reach(h, item) ==
    IF item.k # "ref" THEN {}
    ELSE {item.v} \cup UNION {Reach(h, h[item.v].v[x]) : x \in DOMAIN h[item.v].v}

\* new containers that hold a value
RECURSIVE New(_, _)
RECURSIVE NewItems(_, _, _, _, _)
New(h, value) ==
    CASE value.k = "dict" ->
           NewItems(Append(h, [k |-> "dict", v |-> <<>>]), Len(h) + 1, value.v,
                    KeySeq(DOMAIN value.v), 1)
      [] value.k = "list" ->
           NewItems(Append(h, [k |-> "list", v |-> <<>>]), Len(h) + 1, value.v,
                    [i \in 1..Len(value.v) |-> i], 1)
      [] OTHER -> [h |-> h, r |-> value]

NewItems(h, a, items, keys, i) ==
    IF i > Len(keys) THEN [h |-> h, r |-> Ref(a)]
    ELSE LET c == New(h, items[keys[i]])
         IN  NewItems([c.h EXCEPT ![a].v = SetKey(@, keys[i], c.r)], a, items, keys, i + 1)

\* the object handed on as it is, where the code copies it
deepcopy_shared(h, item) == [h |-> h, r |-> item]

\* copy.deepcopy: a new container for every container reached from the item
deepcopy(h, item) == New(h, ValueAt(h, item))

\* for key, value in second.items(), from the i-th key on; m and second are
\* the addresses of merged_schema and of second
RECURSIVE MergeItems(_, _, _, _, _)
MergeItems(h, m, second, keys, i) ==
    IF i > Len(keys) THEN [h |-> h, r |-> Ref(m)]
    ELSE LET key == keys[i]
             value == h[second].v[key]
             held == h[m].v[key]
         IN  CASE key \notin DOMAIN h[m].v ->
                    \* merged_schema[key] = value
                    MergeItems([h EXCEPT ![m].v = SetKey(@, key, value)],
                               m, second, keys, i + 1)
               [] IsA(h, value, "dict") ->
                    \* merged_schema[key].update(value)
                    IF IsA(h, held, "dict")
                    THEN MergeItems(
                           [h EXCEPT ![held.v].v =
                               [x \in DOMAIN @ \cup DOMAIN h[value.v].v |->
                                   IF x \in DOMAIN h[value.v].v
                                   THEN h[value.v].v[x] ELSE @[x]]],
                           m, second, keys, i + 1)
                    ELSE [h |-> h, r |-> Raise("AttributeError")]
               [] IsA(h, value, "list") ->
                    \* merged_schema[key].extend(value)
                    IF IsA(h, held, "list")
                    THEN MergeItems([h EXCEPT ![held.v].v = @ \o h[value.v].v],
                                    m, second, keys, i + 1)
                    ELSE [h |-> h, r |-> Raise("AttributeError")]
               [] OTHER -> MergeItems(h, m, second, keys, i + 1)

merge_schemas_in_memory(h, first, second) ==
    LET merged_schema == deepcopy(h, first)
    IN  MergeItems(merged_schema.h, merged_schema.r.v, second.v,
                   KeySeq(DOMAIN h[second.v].v), 1)

RECURSIVE resolve_schema_in_memory(_, _)

\* for key, value in resolved_schema.items(), from the i-th key on
RECURSIVE ResolveValues(_, _, _, _)
ResolveValues(h, rs, keys, i) ==
    IF i > Len(keys) THEN [h |-> h, r |-> Ref(rs)]
    ELSE LET value == h[rs].v[keys[i]]
             resolved == resolve_schema_in_memory(h, value)
         IN  CASE ~IsA(h, value, "dict") -> ResolveValues(h, rs, keys, i + 1)
               [] IsRaise(resolved.r) -> resolved
               [] OTHER ->
                    ResolveValues([resolved.h EXCEPT ![rs].v[keys[i]] = resolved.r],
                                  rs, keys, i + 1)

\* the loop over the allOf parts, from the i-th on
RECURSIVE MergePartsInMemory(_, _, _, _)
MergePartsInMemory(h, resolved_schema, schema_parts, i) ==
    IF i > Len(schema_parts) THEN [h |-> h, r |-> resolved_schema]
    ELSE LET resolved_part == resolve_schema_in_memory(h, schema_parts[i])
             merged == merge_schemas_in_memory(resolved_part.h, resolved_schema,
                                               resolved_part.r)
         IN  CASE IsRaise(resolved_part.r) -> resolved_part
               [] IsRaise(merged.r) -> merged
               [] OTHER -> MergePartsInMemory(merged.h, merged.r, schema_parts, i + 1)

\* the loop over the anyOf / oneOf parts, from the i-th on
RECURSIVE CollectTypesInMemory(_, _, _, _)
CollectTypesInMemory(h, resolved_schema, schema_parts, i) ==
    IF i > Len(schema_parts) THEN [h |-> h, r |-> resolved_schema]
    ELSE LET resolved_part == resolve_schema_in_memory(h, schema_parts[i])
             ph == resolved_part.h
             rs == resolved_schema.v
             merged == merge_schemas_in_memory(ph, resolved_schema, resolved_part.r)
         IN  CASE IsRaise(resolved_part.r) -> resolved_part
               [] "type" \notin DOMAIN ph[resolved_part.r.v].v ->
                    IF IsRaise(merged.r) THEN merged
                    ELSE CollectTypesInMemory(merged.h, merged.r, schema_parts, i + 1)
               [] "types" \notin DOMAIN ph[rs].v ->
                    \* resolved_schema["types"] = [resolved_part]
                    CollectTypesInMemory(
                        [Append(ph, [k |-> "list", v |-> <<resolved_part.r>>])
                            EXCEPT ![rs].v = SetKey(@, "types", Ref(Len(ph) + 1))],
                        resolved_schema, schema_parts, i + 1)
               [] ~IsA(ph, ph[rs].v["types"], "list") ->
                    [h |-> ph, r |-> Raise("AttributeError")]
               [] OTHER ->
                    \* resolved_schema["types"].append(resolved_part)
                    CollectTypesInMemory(
                        [ph EXCEPT ![ph[rs].v["types"].v].v = Append(@, resolved_part.r)],
                        resolved_schema, schema_parts, i + 1)

resolve_schema_in_memory(h, schema) ==
    LET \* the items a loop over schema_parts goes over
        PartItems(mem, schema_parts) ==
            IF IsA(mem, schema_parts, "list") THEN mem[schema_parts.v].v
            ELSE PartsOf(ValueAt(mem, schema_parts))
    IN
    IF ~IsA(h, schema, "dict") THEN [h |-> h, r |-> Raise("AttributeError")]
    ELSE
    LET copied == deepcopy(h, schema)
        rs == copied.r.v
        nested == ResolveValues(copied.h, rs, KeySeq(DOMAIN copied.h[rs].v), 1)
        all_of == Get(nested.h[rs].v, "allOf", None)
        popped_all_of == [nested.h EXCEPT ![rs].v = Without(@, "allOf")]
        merged == IF Truthy(ValueAt(nested.h, all_of))
                  THEN MergePartsInMemory(popped_all_of, Ref(rs),
                                          PartItems(popped_all_of, all_of), 1)
                  ELSE [h |-> popped_all_of, r |-> Ref(rs)]
        ms == merged.r.v
        any_of == Get(merged.h[ms].v, "anyOf", List(<<>>))
        one_of == Get(merged.h[ms].v, "oneOf", List(<<>>))
        popped == [merged.h EXCEPT ![ms].v = Without(Without(@, "anyOf"), "oneOf")]
        schema_parts == IF Truthy(ValueAt(merged.h, any_of)) THEN any_of ELSE one_of
    IN  CASE IsRaise(nested.r) -> nested
          [] IsRaise(merged.r) -> merged
          [] OTHER -> CollectTypesInMemory(popped, merged.r,
                                           PartItems(popped, schema_parts), 1)

(***************************************************************************)
(* dto_base: the relations and Dto.get_invalidated_data.                   *)
(*                                                                         *)
(* A Dto instance is the mapping of its property names to their values     *)
(* (what as_dict returns); its relations are the list get_relations()      *)
(* returns.  as_dict copies the mapping but not the values, so a list      *)
(* value of the returned mapping is the list the Dto holds.                *)
(***************************************************************************)

PropertyValueConstraint(property_name, values, invalid_value, invalid_value_error_code, error_code) ==
    [cls |-> "PropertyValueConstraint", property_name |-> property_name,
     values |-> values, invalid_value |-> invalid_value,
     invalid_value_error_code |-> invalid_value_error_code,
     error_code |-> error_code]

IdDependency(property_name, get_path, error_code) ==
    [cls |-> "IdDependency", property_name |-> property_name,
     get_path |-> get_path, operation_id |-> None, error_code |-> error_code]

get_parameter_relations_for_error_code(rels, error_code) ==
    SelectSeq(rels, LAMBDA r :
        \/ r.error_code = error_code
        \/ /\ "invalid_value_error_code" \in DOMAIN r
           /\ r.invalid_value_error_code = error_code
           /\ r.invalid_value # NOT_SET)

\* the relations picked on their error_code alone
get_relations_for_error_code_only(rels, error_code) ==
    SelectSeq(rels, LAMBDA r : r.error_code = error_code)

get_relations_for_error_code(rels, error_code) ==
    SelectSeq(rels, LAMBDA r :
        \/ r.error_code = error_code
        \/ /\ "invalid_value_error_code" \in DOMAIN r
           /\ r.invalid_value_error_code = error_code
           /\ r.invalid_value # NOT_SET)

\* the tokens uuid4().hex can return
HexSamples ==
    {Str("0f8fad5bd9cb469fa16570867728950e"), Str("7c9e6679742540de944be07fc1f90ae7")}

\* the relations of another class on the property taken for the IdDependency ones
id_dependencies_of_references(rels, property_name) ==
    SelectSeq(rels, LAMBDA r : r.cls = "IdReference" /\ r.property_name = property_name)

id_dependencies(rels, property_name) ==
    SelectSeq(rels, LAMBDA r : r.cls = "IdDependency" /\ r.property_name = property_name)

\* [r.values[0] for r in relations if ...]; IndexError on an empty values list
values_from_constraint(rels, property_name) ==
    LET matching == SelectSeq(rels, LAMBDA r :
                        /\ r.cls = "PropertyValueConstraint"
                        /\ r.property_name = property_name)
    IN  IF \E i \in 1..Len(matching) : Len(matching[i].values) = 0
        THEN [err |-> Raise("IndexError"), values |-> <<>>]
        ELSE [err |-> None,
              values |-> [i \in 1..Len(matching) |-> matching[i].values[1]]]

\* an outcome of get_invalidated_data: what it returns or raises, the property
\* values the dto is left with and the property the loop started with
DataOut(ret, dto_values, selected) ==
    [ret |-> ret, dto |-> dto_values, selected |-> selected]

\* the body of the loop for the first of the shuffled property names
invalidate_property(dto_values, rels, schema, status_code, property_name) ==
    LET \* [r.invalid_value for r in relations if ...]
        invalid_value_from_constraint(all_rels, name, code) ==
            LET matching == SelectSeq(all_rels, LAMBDA r :
                                /\ r.cls = "PropertyValueConstraint"
                                /\ r.property_name = name
                                /\ r.invalid_value_error_code = code)
            IN  [i \in 1..Len(matching) |-> matching[i].invalid_value]
    IN
    LET \* the current values to invalidate: the one of the dto, or a placeholder of
        \* the type of the schema when the dto has none
        current_values_of(properties, name, value_schema) ==
            CASE name \in DOMAIN properties -> {properties[name]}
              [] "type" \notin DOMAIN value_schema.v -> {Raise("KeyError")}
              [] value_schema.v["type"] = Str("object") -> {EmptyDict}
              [] value_schema.v["type"] = Str("array") -> {List(<<>>)}
              [] OTHER -> get_valid_value(value_schema.v)
    IN
    LET \* the schemas the property can be invalidated under: the one of the property,
        \* or one of its types without the null ones when there are several
        value_schemas_of(resolved_schema, name) ==
            IF "properties" \notin DOMAIN resolved_schema.v
               \/ name \notin DOMAIN resolved_schema.v.properties.v
            THEN {Raise("KeyError")}
            ELSE LET value_schema == resolve_schema(resolved_schema.v.properties.v[name])
                     types == Get(value_schema.v, "types", None)
                     non_null == SelectSeq(types.v, LAMBDA x : x.v["type"] # Str("null"))
                 IN  CASE IsRaise(value_schema) -> {value_schema}
                       [] ~Truthy(types) -> {value_schema}
                       [] Len(types.v) <= 1 -> Elems(types.v)
                       [] Len(non_null) = 0 -> {Raise("IndexError")}
                       [] OTHER -> Elems(non_null)
    IN
    LET as_dict(self) == self
    IN
    LET properties == as_dict(dto_values)
        explicit == invalid_value_from_constraint(rels, property_name, status_code)
        constraint_values == values_from_constraint(rels, property_name)
        set_to(value) == [x \in DOMAIN properties \cup {property_name} |->
                             IF x = property_name THEN value ELSE properties[x]]
        fail(e) == {DataOut(e, dto_values, property_name)}
    IN  CASE Len(id_dependencies(rels, property_name)) > 0 ->
               \* the debug message reads properties[property_name]
               IF property_name \notin DOMAIN properties THEN fail(Raise("KeyError"))
               ELSE {DataOut(Dict(set_to(h)), dto_values, property_name) :
                        h \in HexSamples}
          [] Len(explicit) > 0 /\ explicit[1] # NOT_SET ->
               {DataOut(Dict(set_to(explicit[1])), dto_values, property_name)}
          [] OTHER ->
               UNION {
                 IF IsRaise(value_schema) THEN fail(value_schema)
                 ELSE UNION {
                   CASE IsRaise(current_value) -> fail(current_value)
                     [] IsRaise(constraint_values.err) -> fail(constraint_values.err)
                     [] OTHER ->
                          {IF IsRaise(o.ret) THEN DataOut(o.ret, dto_values, property_name)
                           ELSE DataOut(Dict(set_to(o.ret)),
                                        \* current_value is the value the dto holds
                                        IF property_name \in DOMAIN dto_values
                                        THEN [dto_values EXCEPT ![property_name] = o.cur]
                                        ELSE dto_values,
                                        property_name) :
                             o \in get_invalid_value(value_schema.v, current_value,
                                                     constraint_values.values)}
                   : current_value \in current_values_of(properties, property_name,
                                                         value_schema)}
                 : value_schema \in value_schemas_of(schema, property_name)}

get_invalidated_data(dto_values, all_relations, schema, status_code, invalid_property_default_code) ==
    LET \* the names the loop over the shuffled property_names can start with (names),
        \* or the exception raised while they are gathered (err)
        candidate_names(rels, resolved_schema, code, default_code) ==
            LET from_relations == {rels[i].property_name : i \in 1..Len(rels)}
            IN  CASE code # default_code ->
                       [err |-> None, names |-> from_relations]
                  [] "properties" \notin DOMAIN resolved_schema.v ->
                       [err |-> Raise("KeyError"), names |-> {}]
                  [] resolved_schema.v.properties.k # "dict" ->
                       [err |-> Raise("AttributeError"), names |-> {}]
                  [] OTHER ->
                       [err |-> None,
                        names |-> from_relations \cup DOMAIN resolved_schema.v.properties.v]
    IN
    LET resolved == resolve_schema(schema)
        for_code == get_relations_for_error_code(all_relations, status_code)
        rels == SelectSeq(for_code, LAMBDA r : r.cls # "PathPropertiesConstraint")
        property_names ==
            candidate_names(rels, resolved, status_code, invalid_property_default_code)
    IN  CASE IsRaise(resolved) -> {DataOut(resolved, dto_values, "")}
          [] IsRaise(property_names.err) ->
               {DataOut(property_names.err, dto_values, "")}
          [] property_names.names = {} ->
               {DataOut(Raise("ValueError"), dto_values, "")}
          [] OTHER ->
               UNION {invalidate_property(dto_values, rels, resolved, status_code,
                                          property_name) :
                         property_name \in property_names.names}

(***************************************************************************)
(* The inputs of the value_utils functions.                                *)
(***************************************************************************)
\* marks a key that a schema does not carry
Absent == [k |-> "absent", v |-> 0]

Opt(S) == S \cup {Absent}

\* the dict with the keys of rec that are not Absent
MkSchema(rec) == [key \in {x \in DOMAIN rec : rec[x] # Absent} |-> rec[key]]

Lengths == {I(n) : n \in 0..MaxItems}

StringSchemas ==
    {MkSchema([type |-> Str("string"), minLength |-> lo, maxLength |-> hi]) :
        lo \in Opt(Lengths), hi \in Opt(Lengths)}

ArraySchemas ==
    {MkSchema([type |-> Str("array"), minItems |-> lo, maxItems |-> hi,
               items |-> Dict([type |-> Str("string")])]) :
        lo \in Opt(Lengths), hi \in Opt(Lengths)}

OtherSchemas ==
    {[type |-> Str("boolean")], [type |-> Str("object")], [type |-> Str("null")],
     [types |-> List(<<Dict([type |-> Str("string")]), Dict([type |-> Str("null")])>>)],
     [types |-> List(<<Dict([type |-> Str("null")])>>)]}

StringValues == {Str(""), Str("a"), Str("ab"), Str("abc")}

ArrayValues ==
    {List(<<>>), List(<<Str("a")>>), List(<<Str("a"), Str("b")>>),
     List(<<I(1), I(2), I(3)>>)}

TypeNames ==
    {Str("string"), Str("integer"), Str("number"), Str("array"), Str("object"),
     Str("boolean"), Str("null")}

CompositionKeys == {"allOf", "anyOf", "oneOf"}

\* the schemas that nest the composition keywords up to depth d: one part, a
\* part next to a leaf, a composition under a property, and anyOf with oneOf
RECURSIVE SchemasOfDepth(_)
SchemasOfDepth(d) ==
    LET \* the schemas put next to a part: one with a type and one without
        Companions == {Dict([type |-> Str("string")]), Dict([required |-> List(<<Str("a")>>)])}
    IN
    LET \* schemas without a composition keyword
        LeafSchemas ==
            {Dict([type |-> Str("string")]),
             Dict([type |-> Str("integer"), minimum |-> I(1)]),
             Dict([required |-> List(<<Str("a")>>)]),
             Dict([type |-> Str("object"), required |-> List(<<Str("b")>>),
                   properties |-> Dict([b |-> Dict([type |-> Str("integer")])])])}
    IN
    IF d = 0 THEN LeafSchemas
    ELSE LET parts == SchemasOfDepth(d - 1)
         IN  parts
             \cup {Dict([x \in {key} |-> List(<<p>>)]) : key \in CompositionKeys, p \in parts}
             \cup {Dict([x \in {key} |-> List(<<p, q>>)]) :
                      key \in CompositionKeys, p \in parts, q \in Companions}
             \cup {Dict([x \in {key} |-> List(<<q, p>>)]) :
                      key \in CompositionKeys, p \in parts, q \in Companions}
             \cup {Dict([x \in {key, "type", "properties"} |->
                           CASE x = "type" -> Str("object")
                             [] x = "properties" -> Dict([a |-> p])
                             [] OTHER -> List(<<q>>)]) :
                      key \in CompositionKeys, p \in parts, q \in Companions}
             \cup {Dict([anyOf |-> List(<<q>>), oneOf |-> List(<<p>>)]) :
                      p \in parts, q \in Companions \cup {Dict(<<>>)}}

ResolveSchemas == SchemasOfDepth(MaxDepth)

(***************************************************************************)
(* The calls of the value_utils functions.  A behaviour is one call: the   *)
(* initial state holds the function called (op) and its arguments (args),  *)
(* the action of that function puts its outcome in result.                 *)
(***************************************************************************)
Pending == [k |-> "pending", v |-> 0]

\* dto_utils.DEFAULT_ID_PROPERTY_NAME as the import of the module leaves it,
\* and no library instance
InitModule ==
    /\ DEFAULT_ID_PROPERTY_NAME = [id_property_name |-> "id"]
    /\ instances = <<>>

NoInstance == UNCHANGED <<DEFAULT_ID_PROPERTY_NAME, instances>>

NoDto == UNCHANGED <<dto, dto0, relations, DEFAULT_ID_PROPERTY_NAME, instances>>

InitValues ==
    LET RandomFloatSchemas ==
            LET \* the bounds get_random_float is called with: integers and fractions, so that
                \* two different bounds have a float of the model strictly between them
                FloatBounds == {I(-2), I(-1), I(0), I(1), F(-2), F(2)}
            IN
            {MkSchema([minimum |-> lo, maximum |-> hi,
                       exclusiveMinimum |-> xl, exclusiveMaximum |-> xh]) :
                lo \in Opt(FloatBounds), hi \in Opt(FloatBounds),
                xl \in Opt({True, False, I(0), I(1)}), xh \in Opt({True, False, I(0), I(1)})}
    IN
    LET \* the schemas get_valid_value is called with
        ValidSchemas ==
            {MkSchema([const |-> c, enum |-> e, type |-> t, minimum |-> lo,
                       minLength |-> nl, maxLength |-> ml, format |-> f,
                       items |-> Dict([type |-> Str("boolean")])]) :
                c \in Opt({I(42), Str("x")}),
                e \in Opt({List(<<Str("foo"), Str("bar")>>), List(<<I(1), I(2), I(3)>>),
                           List(<<>>)}),
                t \in Opt(TypeNames \ {Str("null")}), lo \in Opt({I(-1), I(43)}),
                nl \in Opt({I(0), I(36), I(42)}), ml \in Opt({I(0), I(MaxItems)}),
                f \in Opt({Str("date"), Str("byte"), Str("int64")})}
    IN
    LET \* the constraint lists whose values are all of one json type
        TypedConstraintLists ==
            LET \* the lists of one to n items of S
                SeqsUpTo(S, n) == UNION {[1..m -> S] : m \in 1..n}
            IN
            SeqsUpTo({True, False}, MaxItems)
            \cup SeqsUpTo({Str(""), Str("a"), Str("foo")}, MaxItems)
            \cup SeqsUpTo({I(-MaxNum), I(-1), I(0), I(1), I(MaxNum)}, MaxItems)
            \cup SeqsUpTo({F(-6), F(0), F(2), I(1)}, MaxItems)
    IN
    LET \* the schemas get_invalid_value is called with
        InvalidSchemas ==
            LET EnumLists ==
                    {List(<<I(1), I(2)>>), List(<<I(-1), I(1)>>), List(<<I(0), I(1), I(2)>>),
                     List(<<I(2), I(MaxNum + 2)>>), List(<<F(2), F(6)>>),
                     List(<<Str("a"), Str("b")>>), List(<<Str(""), Str("a")>>),
                     List(<<Str("foo"), Str("bar")>>),
                     List(<<List(<<>>), List(<<I(1)>>)>>),
                     List(<<List(<<Str("a")>>), List(<<Str("b")>>)>>),
                     List(<<Dict([a |-> I(1)]), Dict([a |-> I(2)])>>),
                     List(<<Dict([a |-> I(1), b |-> I(2)]), Dict([a |-> I(2), b |-> I(1)])>>),
                     List(<<I(1)>>), List(<<Str("a")>>), List(<<>>)}
            IN
            {MkSchema([type |-> t, enum |-> e, minimum |-> lo, maxLength |-> ml,
                       maxItems |-> mi]) :
                t \in TypeNames, e \in Opt(EnumLists), lo \in Opt({I(0), I(2)}),
                ml \in Opt({I(1)}), mi \in Opt({I(2)})}
            \cup OtherSchemas
    IN
    LET ConstraintLists ==
            {<<>>, <<I(1)>>, <<I(0)>>, <<I(1), I(2)>>, <<F(2)>>, <<IGNORE, Str("a")>>,
             <<Str("a")>>, <<Str("")>>, <<Str("a"), Str("b")>>,
             <<IGNORE>>, <<I(1), IGNORE>>, <<True>>, <<True, False>>,
             <<List(<<I(1), Str("a")>>)>>, <<Dict([a |-> I(1), b |-> True])>>}
    IN
    LET BoundSchemas ==
            LET NumberSchemas ==
                    LET NumberBounds == {I(n) : n \in {-MaxNum, -1, 0, 1, MaxNum}} \cup {F(-2), F(6)}
                    IN
                    {MkSchema([type |-> t, minimum |-> lo, maximum |-> hi,
                               exclusiveMinimum |-> xl, exclusiveMaximum |-> xh]) :
                        t \in {Str("integer"), Str("number")},
                        lo \in Opt(NumberBounds), hi \in Opt(NumberBounds),
                        xl \in Opt({True, False, I(0), I(-MaxNum), I(MaxNum)}),
                        xh \in Opt({True, False, I(0), I(-MaxNum), I(MaxNum)})}
            IN
                        NumberSchemas \cup StringSchemas \cup ArraySchemas \cup OtherSchemas
    IN
    LET RandomIntSchemas ==
            LET ExclusiveFlags == {True, False, I(0), I(1), I(max_int32 - 1), I(min_int32 + 1)}
            IN
            LET LimitInts ==
                    {I(min_int32), I(min_int32 + 1), I(max_int32 - 1), I(max_int32),
                     min_int64, max_int64}
            IN
            LET SmallInts == {I(n) : n \in (-MaxNum)..MaxNum}
            IN
            {MkSchema([format |-> f, minimum |-> lo, maximum |-> hi,
                       exclusiveMinimum |-> xl, exclusiveMaximum |-> xh]) :
                f \in Opt({Str("int32"), Str("int64")}),
                lo \in Opt(SmallInts \cup LimitInts), hi \in Opt(SmallInts \cup LimitInts),
                xl \in Opt(ExclusiveFlags), xh \in Opt(ExclusiveFlags)}
    IN
    LET \* the current values a schema is called with
        CurrentValues(value_schema) ==
            CASE value_schema \in StringSchemas -> StringValues
              [] value_schema \in ArraySchemas -> ArrayValues
              [] OTHER -> {Str("irrelevant"), I(1)}
    IN
    /\ \/ /\ op = "get_random_int"
          /\ args \in {[value_schema |-> s] : s \in RandomIntSchemas}
       \/ /\ op = "get_value_out_of_bounds"
          /\ args \in {[value_schema |-> s, current_value |-> c] :
                          s \in BoundSchemas, c \in StringValues \cup ArrayValues
                                                    \cup {Str("irrelevant"), I(1)}}
          /\ args.current_value \in CurrentValues(args.value_schema)
       \/ /\ op = "get_invalid_value"
          /\ args \in {[value_schema |-> s, current_value |-> c,
                         values_from_constraint |-> vc] :
                          s \in InvalidSchemas, c \in {Str("ab"), List(<<I(1)>>)},
                          vc \in ConstraintLists}
       \/ /\ op = "get_valid_value"
          /\ args \in {[value_schema |-> s] : s \in ValidSchemas}
       \/ /\ op = "get_random_float"
          /\ args \in {[value_schema |-> s] : s \in RandomFloatSchemas}
       \/ /\ op = "get_invalid_value_from_constraint"
          /\ args \in {[values_from_constraint |-> vc, value_type |-> t] :
                          vc \in ConstraintLists \cup TypedConstraintLists,
                          t \in TypeNames \cup {Str("irrelevant")}}
    /\ result = Pending
    /\ dto = <<>>
    /\ dto0 = <<>>
    /\ InitModule
    /\ relations = <<>>

GetRandomInt ==
    /\ op = "get_random_int"
    /\ result = Pending
    /\ result' \in get_random_int(args.value_schema)
    /\ UNCHANGED <<op, args>>
    /\ NoDto

GetValueOutOfBounds ==
    /\ op = "get_value_out_of_bounds"
    /\ result = Pending
    /\ result' \in get_value_out_of_bounds(args.value_schema, args.current_value)
    /\ UNCHANGED <<op, args>>
    /\ NoDto

GetInvalidValue ==
    /\ op = "get_invalid_value"
    /\ result = Pending
    /\ result' \in get_invalid_value(args.value_schema, args.current_value,
                                      args.values_from_constraint)
    /\ UNCHANGED <<op, args>>
    /\ NoDto

GetRandomFloat ==
    /\ op = "get_random_float"
    /\ result = Pending
    /\ result' \in get_random_float(args.value_schema)
    /\ UNCHANGED <<op, args>>
    /\ NoDto

GetValidValue ==
    /\ op = "get_valid_value"
    /\ result = Pending
    /\ result' \in get_valid_value(args.value_schema)
    /\ UNCHANGED <<op, args>>
    /\ NoDto

InitResolve ==
    LET MergeOperands ==
            LET \* the properties of the schemas that are merged: property a with and without
                \* keys of its own on either side, and another property
                MergeProperties ==
                    {Dict([a |-> Dict([type |-> Str("string"), minLength |-> I(1)])]),
                     Dict([a |-> Dict([maxLength |-> I(2)])]),
                     Dict([a |-> Dict([type |-> Str("integer")]), b |-> Dict([type |-> Str("string")])]),
                     Dict([b |-> Dict([type |-> Str("integer")])])}
            IN
            {Dict(MkSchema([type |-> t, required |-> r, properties |-> p])) :
                t \in Opt({Str("object"), Str("string")}),
                r \in Opt({List(<<Str("a")>>), List(<<Str("b")>>)}),
                p \in Opt(MergeProperties)}
    IN
    /\ \/ /\ op = "resolve_schema"
          /\ args \in {[schema |-> x] : x \in ResolveSchemas}
       \/ /\ op = "merge_schemas"
          /\ args \in {[first |-> x, second |-> y] :
                          x \in MergeOperands, y \in MergeOperands}
    /\ result = Pending
    /\ dto = <<>>
    /\ dto0 = <<>>
    /\ InitModule
    /\ relations = <<>>

MergeSchemas ==
    /\ op = "merge_schemas"
    /\ result = Pending
    /\ result' = merge_schemas(args.first, args.second)
    /\ UNCHANGED <<op, args>>
    /\ NoDto

ResolveSchema ==
    /\ op = "resolve_schema"
    /\ result = Pending
    /\ result' = resolve_schema(args.schema)
    /\ UNCHANGED <<op, args>>
    /\ NoDto

GetInvalidValueFromConstraint ==
    /\ op = "get_invalid_value_from_constraint"
    /\ result = Pending
    /\ result' = get_invalid_value_from_constraint(args.values_from_constraint,
                                                   args.value_type)
    /\ UNCHANGED <<op, args>>
    /\ NoDto

NextValues ==
    \/ GetRandomInt
    \/ GetValueOutOfBounds
    \/ GetInvalidValue
    \/ GetValidValue
    \/ GetRandomFloat
    \/ GetInvalidValueFromConstraint

Spec == InitValues /\ [][NextValues]_vars

\* resolve_schema called on what a call of resolve_schema returned; first is
\* the schema the earlier call was given
ResolveSchemaAgain ==
    /\ op = "resolve_schema"
    /\ result # Pending
    /\ ~IsRaise(result)
    /\ args' = [schema |-> result, first |-> args.schema]
    /\ result' = resolve_schema(result)
    /\ UNCHANGED op
    /\ NoDto

NextResolve ==
    \/ MergeSchemas
    \/ ResolveSchema
    \/ ResolveSchemaAgain

\* the calls of resolve_schema
SpecResolve == InitResolve /\ [][NextResolve]_vars

(***************************************************************************)
(* The calls of resolve_schema on a schema held in memory: args holds the  *)
(* memory before the call and the schema passed, result the memory after   *)
(* the call and what was returned.  The caller then changes one container  *)
(* of the returned schema.                                                 *)
(***************************************************************************)
InitMemory ==
    /\ op = "resolve_schema_in_memory"
    /\ args \in {[schema |-> New(<<>>, x).r, heap |-> New(<<>>, x).h] :
                    x \in ResolveSchemas}
    /\ result = Pending
    /\ dto = <<>>
    /\ dto0 = <<>>
    /\ InitModule
    /\ relations = <<>>

ResolveSchemaInMemory ==
    /\ op = "resolve_schema_in_memory"
    /\ result = Pending
    /\ result' = resolve_schema_in_memory(args.heap, args.schema)
    /\ UNCHANGED <<op, args>>
    /\ NoDto

\* the caller changes a container of the returned schema: d["x"] = None on a
\* dict, append(None) on a list
MutateResult ==
    /\ op = "resolve_schema_in_memory"
    /\ result # Pending
    /\ ~IsRaise(result.r)
    /\ "mutated" \notin DOMAIN result
    /\ \E a \in Reach(result.h, result.r) :
           result' = [h |-> [result.h EXCEPT ![a].v =
                                IF result.h[a].k = "dict" THEN SetKey(@, "x", None)
                                ELSE Append(@, None)],
                      r |-> result.r,
                      mutated |-> a]
    /\ UNCHANGED <<op, args>>
    /\ NoDto

NextMemory ==
    \/ ResolveSchemaInMemory
    \/ MutateResult

SpecMemory == InitMemory /\ [][NextMemory]_vars

(***************************************************************************)
(* The calls of Dto.get_invalidated_data on one Dto instance.  The initial *)
(* state is the instance as constructed (dto0 keeps its property values);  *)
(* each action is one call, with any schema and status code.               *)
(***************************************************************************)

RelationLists ==
    LET UniquePropertyValueConstraint(property_name, value, error_code) ==
            [cls |-> "UniquePropertyValueConstraint", property_name |-> property_name,
             value |-> value, error_code |-> error_code]
    IN
    LET IdReference(property_name, post_path, error_code) ==
            [cls |-> "IdReference", property_name |-> property_name,
             post_path |-> post_path, error_code |-> error_code]
    IN
    LET PathPropertiesConstraint(path) ==
            [cls |-> "PathPropertiesConstraint", path |-> path,
             property_name |-> "id", error_code |-> 404]
    IN
    {<<>>,
     <<IdDependency("id", "/groups", 422)>>,
     <<PropertyValueConstraint("id", <<I(7)>>, I(99), 422, 422),
       IdDependency("id", "/groups", 422)>>,
     <<PropertyValueConstraint("age", <<I(1), I(2)>>, NOT_SET, 422, 422)>>,
     <<PropertyValueConstraint("age", <<I(1), I(2)>>, I(110), 403, 422)>>,
     <<PropertyValueConstraint("tags", <<>>, NOT_SET, 422, 451)>>,
     <<PathPropertiesConstraint("/groups/1"),
       UniquePropertyValueConstraint("name", Str("ab"), 418),
       IdReference("id", "/employees", 404)>>}

StatusCodes == {422, 403, 404, 451}

invalid_property_default_response == 422

InitDto ==
    LET DtoValues ==
            {MkSchema([id |-> id, age |-> age, name |-> Str("ab"), tags |-> tags]) :
                id \in Opt({I(7)}), age \in {I(1), I(2)},
                tags \in Opt({List(<<>>), List(<<Str("a")>>)})}
    IN
    /\ op = "init"
    /\ args = <<>>
    /\ result = Pending
    /\ dto \in DtoValues
    /\ dto0 = dto
    /\ InitModule
    /\ relations \in RelationLists

GetInvalidatedData ==
    LET DtoSchemas ==
            LET DtoProperties ==
                    [id |-> Dict([type |-> Str("integer")]),
                     age |-> Dict([type |-> Str("integer"), minimum |-> I(0), maximum |-> I(10)]),
                     name |-> Dict([type |-> Str("string")]),
                     tags |-> Dict([type |-> Str("array"), maxItems |-> I(MaxItems),
                                    items |-> Dict([type |-> Str("string")])])]
            IN
            {Dict([type |-> Str("object"), properties |-> Dict(DtoProperties)]),
             Dict([allOf |-> List(<<
                 Dict([type |-> Str("object"),
                       properties |-> Dict([id |-> DtoProperties.id,
                                            name |-> Dict([type |-> Str("string"),
                                                           maxLength |-> I(MaxItems)])])]),
                 Dict([properties |-> Dict([
                       age |-> Dict([anyOf |-> List(<<DtoProperties.age,
                                                       Dict([type |-> Str("null")])>>)]),
                       tags |-> Dict([type |-> Str("array"), minItems |-> I(1),
                                      items |-> Dict([type |-> Str("string")])])])])>>)]),
             Dict([type |-> Str("object")])}
    IN
    \E schema \in DtoSchemas, status_code \in StatusCodes :
        \E o \in get_invalidated_data(dto, relations, schema, status_code,
                                      invalid_property_default_response) :
            /\ op' = "get_invalidated_data"
            /\ args' = [schema |-> schema, status_code |-> status_code,
                        before |-> dto]
            /\ result' = [ret |-> o.ret, selected |-> o.selected]
            /\ dto' = o.dto
            /\ UNCHANGED <<dto0, relations>>
            /\ NoInstance

\* a call of get_relations_for_error_code on the instance
GetRelationsForErrorCode ==
    \E error_code \in StatusCodes :
        /\ op' = "get_relations_for_error_code"
        /\ args' = [error_code |-> error_code, declared |-> relations]
        /\ result' = [ret |-> get_relations_for_error_code(relations, error_code),
                      selected |-> ""]
        /\ UNCHANGED <<dto, dto0, relations>>
        /\ NoInstance

\* a call of get_parameter_relations_for_error_code on an instance of a class
\* whose get_parameter_relations returns parameter_relations
GetParameterRelationsForErrorCode ==
    \E error_code \in StatusCodes, parameter_relations \in RelationLists :
        /\ op' = "get_parameter_relations_for_error_code"
        /\ args' = [error_code |-> error_code, declared |-> parameter_relations]
        /\ result' = [ret |-> get_parameter_relations_for_error_code(
                                  parameter_relations, error_code),
                      selected |-> ""]
        /\ UNCHANGED <<dto, dto0, relations>>
        /\ NoInstance

NextDto ==
    \/ GetInvalidatedData
    \/ GetRelationsForErrorCode
    \/ GetParameterRelationsForErrorCode

SpecDto == InitDto /\ [][NextDto]_vars

(***************************************************************************)
(* openapi_libcore.OpenApiLibCore: the keywords that work on urls.  An url *)
(* is a string; str.split, str.join and str.replace are computed on its    *)
(* characters.                                                             *)
(***************************************************************************)
RECURSIVE SplitFrom(_, _, _)
SplitFrom(s, i, part) ==
    IF i > Len(s) THEN <<part>>
    ELSE IF SubSeq(s, i, i) = "/" THEN <<part>> \o SplitFrom(s, i + 1, "")
    ELSE SplitFrom(s, i + 1, part \o SubSeq(s, i, i))

\* s.split("/")
split(s) == SplitFrom(s, 1, "")

\* "/".join(parts)
RECURSIVE join(_)
join(parts) ==
    CASE Len(parts) = 0 -> ""
      [] Len(parts) = 1 -> parts[1]
      [] OTHER -> parts[1] \o "/" \o join(Tail(parts))

\* s[i:].replace(old, ""), for a non-empty old
RECURSIVE RemoveFrom(_, _, _)
RemoveFrom(s, old, i) ==
    CASE i > Len(s) -> ""
      [] i + Len(old) - 1 <= Len(s) /\ SubSeq(s, i, i + Len(old) - 1) = old ->
           RemoveFrom(s, old, i + Len(old))
      [] OTHER -> SubSeq(s, i, i) \o RemoveFrom(s, old, i + 1)

startswith(s, c) == Len(s) > 0 /\ SubSeq(s, 1, 1) = c

endswith(s, c) == Len(s) > 0 /\ SubSeq(s, Len(s), Len(s)) = c

\* the outcomes of uuid4().hex
UuidHexSamples ==
    {"0f8fad5bd9cb469fa16570867728950e", "7c9e6679742540de944be07fc1f90ae7"}

\* paths: the keys of the paths section of the openapi document, in its order
get_parametrized_endpoint(paths, endpoint) ==
    LET match_parts(parts, spec_parts) ==
            /\ Len(parts) = Len(spec_parts)
            /\ \A i \in 1..Len(parts) :
                  /\ parts[i] # "Filler" /\ spec_parts[i] # "Filler"
                  /\ parts[i] = spec_parts[i] \/ startswith(spec_parts[i], "{")
    IN
    LET endpoint_parts == split(endpoint)
        candidates == SelectSeq(paths, LAMBDA spec_endpoint :
                                   match_parts(endpoint_parts, split(spec_endpoint)))
        exact_match == SelectSeq(candidates, LAMBDA c : c = endpoint)
    IN  CASE Len(candidates) = 0 -> Raise("ValueError")
          [] Len(candidates) = 1 -> Str(candidates[1])
          [] Len(exact_match) > 0 -> Str(exact_match[1])
          [] OTHER -> Raise("ValueError")

get_parameterized_endpoint_from_url(base_url, paths, url) ==
    get_parametrized_endpoint(paths, RemoveFrom(url, base_url, 1))

get_invalidated_url(base_url, paths, valid_url) ==
    LET \* the first place of the reversed url whose part of the parameterized url is
        \* a path parameter; 0 when there is none
        FirstParameter(parameterized_parts, valid_url_parts) ==
            LET n == IF Len(parameterized_parts) < Len(valid_url_parts)
                     THEN Len(parameterized_parts) ELSE Len(valid_url_parts)
                places == {i \in 1..n : /\ startswith(parameterized_parts[i], "{")
                                        /\ endswith(parameterized_parts[i], "}")}
            IN  IF places = {} THEN 0 ELSE CHOOSE i \in places : \A j \in places : i <= j
    IN
    LET reversed(seq) == [i \in 1..Len(seq) |-> seq[Len(seq) + 1 - i]]
    IN
    LET parameterized_endpoint ==
            get_parameterized_endpoint_from_url(base_url, paths, valid_url)
        valid_url_parts == reversed(split(valid_url))
        parameterized_parts ==
            IF IsRaise(parameterized_endpoint) THEN <<>>
            ELSE reversed(split(base_url \o parameterized_endpoint.v))
        index == FirstParameter(parameterized_parts, valid_url_parts)
    IN  CASE IsRaise(parameterized_endpoint) -> {parameterized_endpoint}
          [] index = 0 -> {Raise("ValueError")}
          [] OTHER ->
               {Str(join(reversed([valid_url_parts EXCEPT ![index] = hex]))) :
                    hex \in UuidHexSamples}

(***************************************************************************)
(* openapi_libcore.RequestData and OpenApiLibCore.get_invalidated_         *)
(* parameters, on values.  A request_data is the record of its parameters  *)
(* (a list of dicts), its params and its headers (dicts).                  *)
(***************************************************************************)
Tuple(s) == [k |-> "tuple", v |-> s]

\* one pass of the loop of params_that_can_be_invalidated: whether the name
\* of the parameter is added, or the exception of the pass
can_be_invalidated(param) ==
    LET ContainerTypes == {Str("string"), Str("array"), Str("object")}
    IN
    LET \* the keys of a schema that make a string, an array or an object invalidatable
        BoundaryKeys == {"enum", "minLength", "maxLength", "minItems", "maxItems"}
    IN
    LET schema == param.v["schema"].v
    IN  CASE "schema" \notin DOMAIN param.v -> Raise("KeyError")
          [] "type" \notin DOMAIN schema -> Raise("KeyError")
          [] schema["type"] \notin ContainerTypes -> True
          [] DOMAIN schema \cap BoundaryKeys # {} -> True
          [] "required" \notin DOMAIN param.v -> Raise("KeyError")
          [] Truthy(param.v["required"]) -> True
          [] schema["type"] # Str("array") -> False
          [] "items" \notin DOMAIN schema -> Raise("KeyError")
          [] "type" \notin DOMAIN schema["items"].v -> Raise("KeyError")
          [] schema["items"].v["type"] \notin ContainerTypes -> True
          [] OTHER -> False

\* RequestData.params_that_can_be_invalidated for place "query" and
\* RequestData.headers_that_can_be_invalidated for place "header": the set of
\* names, or the exception of the first pass that raises
that_can_be_invalidated(parameters, place) ==
    LET held == SelectSeq(parameters, LAMBDA h : Get(h.v, "in", None) = Str(place))
        raising == {i \in 1..Len(held) : IsRaise(can_be_invalidated(held[i]))}
    IN  IF raising # {}
        THEN can_be_invalidated(held[CHOOSE i \in raising : \A j \in raising : i <= j])
        ELSE [k |-> "set",
              v |-> {held[i].v["name"].v : i \in {j \in 1..Len(held) :
                                                     can_be_invalidated(held[j]) = True}}]

\* the outcomes of ensure_parameter_in_parameters: the exception, or the
\* params and headers that hold the parameter
ensure_parameter_in_parameters(parameter_to_invalidate, params, headers, parameter_data, constraint_values) ==
    LET valid_values ==
            CASE Len(constraint_values) > 0 -> Elems(constraint_values)
              [] "schema" \notin DOMAIN parameter_data -> {Raise("KeyError")}
              [] OTHER -> get_valid_value(parameter_data["schema"].v)
        added(valid_value) ==
            CASE IsRaise(valid_value) -> valid_value
              [] "in" \notin DOMAIN parameter_data -> Raise("KeyError")
              [] parameter_data["in"] = Str("query") ->
                   Tuple(<<SetKey(params, parameter_to_invalidate, valid_value), headers>>)
              [] parameter_data["in"] = Str("header") ->
                   Tuple(<<params, SetKey(headers, parameter_to_invalidate, valid_value)>>)
              [] OTHER -> Tuple(<<params, headers>>)
    IN  IF parameter_to_invalidate \in DOMAIN params \cup DOMAIN headers
        THEN {Tuple(<<params, headers>>)}
        ELSE {added(valid_value) : valid_value \in valid_values}

\* get_invalidated_parameters from the choice of the parameter on
invalidate_parameter(request_data, relations_for_status_code, status_code, parameter_to_invalidate) ==
    LET matching == SelectSeq(request_data.parameters.v, LAMBDA data :
                        Get(data.v, "name", None) = Str(parameter_to_invalidate))
        parameter_data == matching[1].v
        explicit == SelectSeq(relations_for_status_code, LAMBDA r :
                        /\ r.property_name = parameter_to_invalidate
                        /\ r.invalid_value_error_code = status_code)
        invalid_value_for_error_code ==
            IF Len(explicit) = 1 THEN explicit[1].invalid_value ELSE NOT_SET
        constraints == SelectSeq(relations_for_status_code, LAMBDA r :
                           r.property_name = parameter_to_invalidate)
        constraint_values ==
            IF Len(constraints) = 1 THEN constraints[1].values ELSE <<>>
        updated(params, headers, invalid_value) ==
            IF parameter_to_invalidate \in DOMAIN params
            THEN Tuple(<<Dict(SetKey(params, parameter_to_invalidate, invalid_value)),
                         Dict(headers)>>)
            ELSE Tuple(<<Dict(params),
                         Dict(SetKey(headers, parameter_to_invalidate, invalid_value))>>)
        invalidated(params, headers) ==
            CASE invalid_value_for_error_code # NOT_SET ->
                   {updated(params, headers, invalid_value_for_error_code)}
              [] parameter_to_invalidate \notin DOMAIN params \cup DOMAIN headers ->
                   {Raise("KeyError")}
              [] "schema" \notin DOMAIN parameter_data -> {Raise("KeyError")}
              [] OTHER ->
                   LET valid_value == IF parameter_to_invalidate \in DOMAIN params
                                      THEN params[parameter_to_invalidate]
                                      ELSE headers[parameter_to_invalidate]
                   IN  {IF IsRaise(o.ret) THEN o.ret ELSE updated(params, headers, o.ret) :
                            o \in get_invalid_value(parameter_data["schema"].v, valid_value,
                                                    constraint_values)}
    IN  IF Len(matching) # 1 THEN {Raise("ValueError")}
        ELSE UNION {IF IsRaise(e) THEN {e} ELSE invalidated(e.v[1], e.v[2]) :
                        e \in ensure_parameter_in_parameters(
                                  parameter_to_invalidate, request_data.params.v,
                                  request_data.headers.v, parameter_data,
                                  constraint_values)}

\* rels: what request_data.dto.get_parameter_relations() returns
relations_for_status_code_of(rels, status_code) ==
    SelectSeq(get_parameter_relations_for_error_code(rels, status_code),
              LAMBDA r : /\ r.cls = "PropertyValueConstraint"
                         /\ \/ r.error_code = status_code
                            \/ r.invalid_value_error_code = status_code)

\* get_invalidated_parameters up to the choice of the parameter: the exception
\* raised, or the set of names the choice is made from; the two sets of names
\* are what the cached properties of request_data yield
parameter_names_of(default_response, request_data, params_that_can_be_invalidated, headers_that_can_be_invalidated, rels, status_code) ==
    LET parameters == request_data.parameters.v
        relations_for_status_code == relations_for_status_code_of(rels, status_code)
        parameters_to_ignore ==
            {r.property_name : r \in {x \in Elems(relations_for_status_code) :
                                          /\ x.invalid_value_error_code = status_code
                                          /\ x.invalid_value = IGNORE}}
        relation_property_names ==
            {r.property_name : r \in Elems(relations_for_status_code)}
        by_type == params_that_can_be_invalidated.v \cup headers_that_can_be_invalidated.v
        request_data_parameter_names ==
            {Get(parameters[i].v, "name", None) : i \in 1..Len(parameters)}
        additional_relation_property_names ==
            {n \in relation_property_names : Str(n) \notin request_data_parameter_names}
        from_default == status_code = default_response
        parameter_names ==
            (IF from_default THEN by_type \cup relation_property_names
             ELSE relation_property_names) \ additional_relation_property_names
    IN  CASE Len(parameters) = 0 -> Raise("ValueError")
          [] relation_property_names = {} /\ ~from_default -> Raise("ValueError")
          [] from_default /\ IsRaise(params_that_can_be_invalidated) ->
               params_that_can_be_invalidated
          [] from_default /\ IsRaise(headers_that_can_be_invalidated) ->
               headers_that_can_be_invalidated
          [] from_default /\ by_type \cup relation_property_names = {} ->
               Raise("ValueError")
          [] parameter_names = {} -> Raise("ValueError")
          [] parameter_names \ parameters_to_ignore = {} ->
               \* choice(tuple(parameter_names)) of an empty tuple
               Raise("IndexError")
          [] OTHER -> [k |-> "set", v |-> parameter_names \ parameters_to_ignore]

get_invalidated_parameters(default_response, request_data, rels, status_code) ==
    LET parameter_names ==
            parameter_names_of(default_response, request_data,
                               that_can_be_invalidated(request_data.parameters.v, "query"),
                               that_can_be_invalidated(request_data.parameters.v, "header"),
                               rels, status_code)
    IN  IF IsRaise(parameter_names) THEN {parameter_names}
        ELSE UNION {invalidate_parameter(
                        request_data, relations_for_status_code_of(rels, status_code),
                        status_code, parameter_to_invalidate) :
                        parameter_to_invalidate \in parameter_names.v}

(***************************************************************************)
(* RequestData and get_invalidated_parameters in memory: the containers    *)
(* are objects of a heap, so that two names of one object are told from    *)
(* two equal objects.  A request_data is the record of the references its  *)
(* fields hold.  The relations are built anew by every call of             *)
(* get_parameter_relations, their values are objects no one else holds.    *)
(***************************************************************************)
\* RequestData.__post_init__
post_init(h, dto_schema, parameters, params, headers) ==
    LET a == deepcopy(h, dto_schema)
        b == deepcopy(a.h, parameters)
        c == deepcopy(b.h, params)
        d == deepcopy(c.h, headers)
    IN  [h |-> d.h,
         r |-> [dto_schema |-> a.r, parameters |-> b.r, params |-> c.r, headers |-> d.r]]

\* invalid_value.extend(value) twice for value in values[i..]: the items added
RECURSIVE ExtendedTwice(_, _, _)
ExtendedTwice(h, values, i) ==
    LET \* the items that iterating over an item yields
        ItemsIn(mem, item) ==
            CASE item.k # "ref" -> Iter(item).v
              [] mem[item.v].k = "list" -> mem[item.v].v
              [] OTHER -> Iter(ValueAt(mem, item)).v
    IN
    IF i > Len(values) THEN <<>>
    ELSE ItemsIn(h, values[i]) \o ItemsIn(h, values[i]) \o ExtendedTwice(h, values, i + 1)

\* the loops of the object branch on the dict at address a
RECURSIVE EnumObjectInMemory(_, _, _, _, _, _)
EnumObjectInMemory(h, a, values, keys, i, j) ==
    CASE i > Len(values) -> [h |-> h, r |-> Ref(a)]
      [] j > Len(keys) -> EnumObjectInMemory(h, a, values, keys, i + 1, 1)
      [] OTHER ->
           LET updated == [h EXCEPT ![a].v = SetKey(@, keys[j],
                                                    Get(h[values[i].v].v, keys[j], None))]
           IN  IF ~PyIn(ValueAt(updated, Ref(a)),
                        [x \in 1..Len(values) |-> ValueAt(h, values[x])])
               THEN [h |-> updated, r |-> Ref(a)]
               ELSE EnumObjectInMemory(updated, a, values, keys, i, j + 1)

\* get_invalid_value_from_enum on the enum list held at an item
get_invalid_value_from_enum_in_memory(h, enum_values, value_type) ==
    LET values == h[enum_values.v].v
        by_value == get_invalid_value_from_enum(ValueAt(h, enum_values).v, value_type)
    IN  CASE IsRaise(by_value) \/ by_value = None -> [h |-> h, r |-> by_value]
          [] value_type = Str("array") ->
               \* invalid_value = [], extended by the items of the enum values
               [h |-> Append(h, [k |-> "list", v |-> ExtendedTwice(h, values, 1)]),
                r |-> Ref(Len(h) + 1)]
          [] value_type = Str("object") ->
               \* invalid_value = {**values[0]}
               EnumObjectInMemory(Append(h, [k |-> "dict", v |-> h[values[1].v].v]),
                                  Len(h) + 1, values, Keys(h[values[1].v].v), 1, 1)
          [] OTHER -> [h |-> h, r |-> by_value]

\* get_invalid_value on the schema and the current value held at two items;
\* what get_value_out_of_bounds returns is held by the current value alone
get_invalid_value_in_memory(h, value_schema, current_value, constraint_values) ==
    LET schema == ValueAt(h, value_schema).v
        value_type == schema["type"]
        from_constraint ==
            IF Len(constraint_values) > 0
            THEN get_invalid_value_from_constraint(constraint_values, value_type)
            ELSE None
        enum_values == Get(h[value_schema.v].v, "enum", None)
        from_enum ==
            IF Truthy(ValueAt(h, enum_values))
            THEN get_invalid_value_from_enum_in_memory(h, enum_values, value_type)
            ELSE [h |-> h, r |-> None]
        out_of_bounds == get_value_out_of_bounds(schema, ValueAt(h, current_value))
    IN  CASE "type" \notin DOMAIN schema -> {[h |-> h, r |-> Raise("KeyError")]}
          [] from_constraint # None -> {New(h, from_constraint)}
          [] from_enum.r # None -> {from_enum}
          [] OTHER ->
               {New(h, o.ret) : o \in {x \in out_of_bounds : x.ret # None}}
               \cup
               IF \E o \in out_of_bounds : o.ret = None
               THEN IF value_type = Str("string")
                    THEN {New(h, WrongTypeForString)}
                    ELSE {New(h, u) : u \in UuidSamples}
               ELSE {}

\* get_valid_value on the schema held at an item: choice(from_enum) returns
\* the object the enum holds
get_valid_value_in_memory(h, value_schema) ==
    LET from_enum == Get(h[value_schema.v].v, "enum", None)
    IN  IF Truthy(ValueAt(h, from_enum))
        THEN {[h |-> h, r |-> h[from_enum.v].v[j]] : j \in 1..Len(h[from_enum.v].v)}
        ELSE {New(h, value) : value \in get_valid_value(ValueAt(h, value_schema).v)}

\* get_invalidated_parameters from the choice of the parameter on; params and
\* headers are the addresses of the copies the call made
invalidate_parameter_in_memory(h, request_data, params, headers, relations_for_status_code, status_code, parameter_to_invalidate) ==
    LET matching == SelectSeq(h[request_data.parameters.v].v, LAMBDA data :
                        Get(h[data.v].v, "name", None) = Str(parameter_to_invalidate))
        parameter_data == h[matching[1].v].v
        explicit == SelectSeq(relations_for_status_code, LAMBDA r :
                        /\ r.property_name = parameter_to_invalidate
                        /\ r.invalid_value_error_code = status_code)
        invalid_value_for_error_code ==
            IF Len(explicit) = 1 THEN explicit[1].invalid_value ELSE NOT_SET
        constraints == SelectSeq(relations_for_status_code, LAMBDA r :
                           r.property_name = parameter_to_invalidate)
        constraint_values ==
            IF Len(constraints) = 1 THEN constraints[1].values ELSE <<>>
        held(g) == DOMAIN g[params].v \cup DOMAIN g[headers].v
        \* ensure_parameter_in_parameters
        valid_values ==
            CASE Len(constraint_values) > 0 -> {New(h, value) : value \in Elems(constraint_values)}
              [] "schema" \notin DOMAIN parameter_data -> {[h |-> h, r |-> Raise("KeyError")]}
              [] OTHER -> get_valid_value_in_memory(h, parameter_data["schema"])
        added(x) ==
            CASE IsRaise(x.r) -> x
              [] "in" \notin DOMAIN parameter_data -> [h |-> x.h, r |-> Raise("KeyError")]
              [] parameter_data["in"] = Str("query") ->
                   [h |-> [x.h EXCEPT ![params].v = SetKey(@, parameter_to_invalidate, x.r)],
                    r |-> None]
              [] parameter_data["in"] = Str("header") ->
                   [h |-> [x.h EXCEPT ![headers].v = SetKey(@, parameter_to_invalidate, x.r)],
                    r |-> None]
              [] OTHER -> [h |-> x.h, r |-> None]
        ensured == IF parameter_to_invalidate \in held(h) THEN {[h |-> h, r |-> None]}
                   ELSE {added(x) : x \in valid_values}
        invalidated(g) ==
            CASE invalid_value_for_error_code # NOT_SET -> {New(g, invalid_value_for_error_code)}
              [] parameter_to_invalidate \notin held(g) -> {[h |-> g, r |-> Raise("KeyError")]}
              [] "schema" \notin DOMAIN parameter_data -> {[h |-> g, r |-> Raise("KeyError")]}
              [] OTHER ->
                   get_invalid_value_in_memory(
                       g, parameter_data["schema"],
                       IF parameter_to_invalidate \in DOMAIN g[params].v
                       THEN g[params].v[parameter_to_invalidate]
                       ELSE g[headers].v[parameter_to_invalidate],
                       constraint_values)
        updated(x) ==
            IF IsRaise(x.r) THEN x
            ELSE [h |-> [x.h EXCEPT ![IF parameter_to_invalidate \in DOMAIN x.h[params].v
                                       THEN params ELSE headers].v =
                                         SetKey(@, parameter_to_invalidate, x.r)],
                  r |-> Tuple(<<Ref(params), Ref(headers)>>)]
    IN  IF Len(matching) # 1 THEN {[h |-> h, r |-> Raise("ValueError")]}
        ELSE UNION {IF IsRaise(e.r) THEN {e} ELSE {updated(x) : x \in invalidated(e.h)} :
                        e \in ensured}

\* a cached property that was not read yet
NotCached == [k |-> "unset", v |-> 0]

\* cache: the two cached properties of request_data; the outcomes are the
\* heap, the exception or the tuple returned, and the cache after the call
get_invalidated_parameters_in_memory(default_response, h, request_data, cache, rels, status_code) ==
    LET Kept(cached, computed) ==
            IF cached # NotCached THEN cached ELSE IF IsRaise(computed) THEN NotCached ELSE computed
    IN
    LET \* functools.cached_property: the value is computed at the first read and
        \* kept when the computation returns
        Cached(cached, computed) == IF cached # NotCached THEN cached ELSE computed
    IN
    LET values == [parameters |-> ValueAt(h, request_data.parameters),
                   params |-> ValueAt(h, request_data.params),
                   headers |-> ValueAt(h, request_data.headers)]
        by_query == Cached(cache.params, that_can_be_invalidated(values.parameters.v, "query"))
        by_header == Cached(cache.headers, that_can_be_invalidated(values.parameters.v, "header"))
        parameter_names == parameter_names_of(default_response, values, by_query,
                                              by_header, rels, status_code)
        read == /\ status_code = default_response
                /\ Len(values.parameters.v) > 0
        cache_after ==
            CASE ~read -> cache
              [] IsRaise(by_query) -> cache
              [] OTHER -> [params |-> Kept(cache.params, by_query),
                           headers |-> Kept(cache.headers, by_header)]
        params == deepcopy(h, request_data.params)
        headers == deepcopy(params.h, request_data.headers)
    IN  IF IsRaise(parameter_names)
        THEN {[h |-> h, r |-> parameter_names, cache |-> cache_after]}
        ELSE {[h |-> o.h, r |-> o.r, cache |-> cache_after] :
                 o \in UNION {invalidate_parameter_in_memory(
                                  headers.h, request_data, params.r.v, headers.r.v,
                                  relations_for_status_code_of(rels, status_code),
                                  status_code, parameter_to_invalidate) :
                                  parameter_to_invalidate \in parameter_names.v}}

RECURSIVE EndpointsOf(_)
EndpointsOf(n) ==
    LET Segments == {"a", "b", "1", "me"}
    IN
    IF n = 0 THEN {""}
    ELSE {e \o "/" \o part : e \in EndpointsOf(n - 1), part \in Segments}

\* the parameters of an operation: an integer and a string in the query, the
\* latter also without the required key, and a required header
Parameter(name, place, required, schema) ==
    Dict(MkSchema([name |-> Str(name), in |-> Str(place), required |-> required,
                   schema |-> Dict(schema)]))

LimitParameter == Parameter("limit", "query", False, [type |-> Str("integer"), minimum |-> I(1)])

TokenParameter == Parameter("token", "header", True, [type |-> Str("string")])

RequestData(parameters, params, headers) ==
    [parameters |-> List(parameters), params |-> Dict(params), headers |-> Dict(headers)]

InitLibrary ==
    LET Endpoints == UNION {EndpointsOf(n) : n \in 1..4}
    IN
    LET \* what get_parameter_relations of the dto returns
        ParameterRelationLists ==
            {<<>>,
             <<PropertyValueConstraint("limit", <<I(1)>>, IGNORE, 422, 422)>>,
             <<PropertyValueConstraint("limit", <<I(1), I(2)>>, I(0), 403, 422)>>,
             <<PropertyValueConstraint("absent", <<I(1)>>, NOT_SET, 422, 422)>>,
             <<PropertyValueConstraint("token", <<Str("secret")>>, NOT_SET, 422, 403)>>,
             <<PropertyValueConstraint("sort", <<Str("asc"), Str("desc")>>, NOT_SET, 422, 422),
               PropertyValueConstraint("absent", <<I(1)>>, I(2), 403, 403)>>,
             <<IdDependency("limit", "/groups", 422),
               PropertyValueConstraint("sort", <<IGNORE>>, IGNORE, 403, 403)>>}
    IN
    LET RequestDatas ==
            LET PageParameter == Parameter("page", "query", Absent, [type |-> Str("string")])
            IN
            LET SortParameter == Parameter("sort", "query", False, [type |-> Str("string")])
            IN
            {RequestData(<<>>, <<>>, <<>>),
             RequestData(<<LimitParameter>>, [limit |-> I(5)], <<>>),
             RequestData(<<LimitParameter, TokenParameter>>, <<>>, [token |-> Str("abc")]),
             RequestData(<<SortParameter>>, [sort |-> Str("asc")], <<>>),
             RequestData(<<SortParameter, TokenParameter>>, [sort |-> Str("asc")], <<>>),
             RequestData(<<PageParameter>>, <<>>, <<>>)}
    IN
    LET PathSections ==
            {<<"/a/{x}/b/{y}">>, <<"/a", "/a/{x}">>, <<"/a/me", "/a/{x}", "/a/{x}/b">>,
             <<"/a/{x}", "/a/{y}">>, <<"/{x}/{y}/{z}", "/a/b">>}
    IN
    LET \* the base urls, the path sections and the urls of the library calls
        BaseUrls == {"http://h", "http://h/v1"}
    IN
    /\ \/ /\ op = "get_invalidated_url"
          /\ args \in {[base_url |-> b, paths |-> ps, valid_url |-> b \o e] :
                          b \in BaseUrls, ps \in PathSections, e \in Endpoints}
          /\ relations = <<>>
       \/ /\ op = "get_invalidated_parameters"
          /\ args \in {[status_code |-> c, request_data |-> rd] :
                          c \in StatusCodes, rd \in RequestDatas}
          /\ relations \in ParameterRelationLists
    /\ result = Pending
    /\ dto = <<>>
    /\ dto0 = <<>>
    /\ InitModule

GetInvalidatedParameters ==
    /\ op = "get_invalidated_parameters"
    /\ result = Pending
    /\ result' \in get_invalidated_parameters(invalid_property_default_response,
                                               args.request_data, relations,
                                               args.status_code)
    /\ UNCHANGED <<op, args>>
    /\ NoDto

GetInvalidatedUrl ==
    /\ op = "get_invalidated_url"
    /\ result = Pending
    /\ result' \in get_invalidated_url(args.base_url, args.paths, args.valid_url)
    /\ UNCHANGED <<op, args>>
    /\ NoDto

NextLibrary ==
    \/ GetInvalidatedUrl
    \/ GetInvalidatedParameters

SpecLibrary == InitLibrary /\ [][NextLibrary]_vars

(***************************************************************************)
(* A RequestData in memory: its construction from containers of the        *)
(* caller, calls of get_invalidated_parameters on it and mutations by the  *)
(* caller of the containers it passed in or got back.                      *)
(***************************************************************************)
MaxCalls == 2
MaxMutations == 1

FieldNames == {"dto_schema", "parameters", "params", "headers"}

InitRequest ==
    LET \* what the caller passes to RequestData
        CallerData ==
            LET TagsParameter ==
                    Parameter("tags", "query", True,
                              [type |-> Str("array"), items |-> Dict([type |-> Str("string")]),
                               maxItems |-> I(1)])
            IN
            LET \* an array parameter whose enum holds a list of objects, and an array
                \* parameter with a bound
                GroupsParameter ==
                    Parameter("groups", "query", False,
                              [type |-> Str("array"), items |-> Dict([type |-> Str("object")]),
                               enum |-> List(<<List(<<Dict([id |-> I(1)])>>)>>)])
            IN
            {[dto_schema |-> sc, parameters |-> rd.parameters, params |-> rd.params,
              headers |-> rd.headers] :
                sc \in {EmptyDict, Dict([type |-> Str("object"),
                                         properties |-> Dict([id |-> Dict([type |-> Str("integer")])])])},
                rd \in {RequestData(<<GroupsParameter>>, [groups |-> List(<<Dict([id |-> I(1)])>>)], <<>>),
                        RequestData(<<GroupsParameter, TokenParameter>>, <<>>, [token |-> Str("abc")]),
                        RequestData(<<LimitParameter>>, [limit |-> I(5)], <<>>),
                        RequestData(<<TagsParameter>>, [tags |-> List(<<Str("a")>>)], <<>>)}}
    IN
    LET RequestRelationLists ==
            {<<>>,
             <<PropertyValueConstraint("groups", <<List(<<Dict([id |-> I(2)])>>)>>, NOT_SET, 422, 422)>>,
             <<PropertyValueConstraint("limit", <<I(1), I(2)>>, I(0), 403, 422)>>,
             <<PropertyValueConstraint("tags", <<List(<<Str("a")>>)>>, List(<<>>), 403, 403)>>}
    IN
    LET \* the four containers of the caller, one after the other in a heap
        InMemory(data) ==
            LET a == New(<<>>, data.dto_schema)
                b == New(a.h, data.parameters)
                c == New(b.h, data.params)
                d == New(c.h, data.headers)
            IN  [heap |-> d.h, dto_schema |-> a.r, parameters |-> b.r, params |-> c.r,
                 headers |-> d.r]
    IN
    /\ op = "caller"
    /\ args \in {InMemory(data) : data \in CallerData}
    /\ relations \in RequestRelationLists
    /\ result = Pending
    /\ dto = <<>>
    /\ dto0 = <<>>
    /\ InitModule

\* request_data = RequestData(dto, dto_schema, parameters, params, headers)
Construct ==
    /\ op = "caller"
    /\ op' = "request_data"
    /\ LET made == post_init(args.heap, args.dto_schema, args.parameters, args.params,
                             args.headers)
       IN  result' = [h |-> made.h, request_data |-> made.r,
                      cache |-> [params |-> NotCached, headers |-> NotCached],
                      returned |-> <<>>, mutations |-> 0]
    /\ UNCHANGED args
    /\ NoDto

GetInvalidatedParametersInMemory ==
    /\ op = "request_data"
    /\ Len(result.returned) < MaxCalls
    /\ \E status_code \in {422, 403} :
         \E o \in get_invalidated_parameters_in_memory(
                      invalid_property_default_response, result.h, result.request_data,
                      result.cache, relations, status_code) :
             result' = [result EXCEPT !.h = o.h, !.cache = o.cache,
                                      !.returned = Append(@, o.r)]
    /\ UNCHANGED <<op, args>>
    /\ NoDto

\* container[x] = None on a dict, container.append(None) on a list
Mutated(h, a) ==
    [h EXCEPT ![a].v = IF h[a].k = "dict" THEN SetKey(@, "x", None) ELSE Append(@, None)]

\* the caller changes a container it passed to RequestData
MutatePassed ==
    /\ op = "request_data"
    /\ result.mutations < MaxMutations
    /\ \E f \in FieldNames : \E a \in Reach(result.h, args[f]) :
           result' = [result EXCEPT !.h = Mutated(@, a), !.mutations = @ + 1]
    /\ UNCHANGED <<op, args>>
    /\ NoDto

\* the containers of the tuple a call returned
ReturnedContainers(h, r) ==
    IF IsRaise(r) THEN {} ELSE Reach(h, r.v[1]) \cup Reach(h, r.v[2])

\* the caller changes a container of the params or headers it got back
MutateReturned ==
    /\ op = "request_data"
    /\ result.mutations < MaxMutations
    /\ \E i \in 1..Len(result.returned) :
         \E a \in ReturnedContainers(result.h, result.returned[i]) :
           result' = [result EXCEPT !.h = Mutated(@, a), !.mutations = @ + 1]
    /\ UNCHANGED <<op, args>>
    /\ NoDto

NextRequest ==
    \/ Construct
    \/ GetInvalidatedParametersInMemory
    \/ MutatePassed
    \/ MutateReturned

SpecRequest == InitRequest /\ [][NextRequest]_vars

(***************************************************************************)
(* dto_utils.get_id_property_name and OpenApiLibCore.__init__: library     *)
(* instances of one process.  An instance is the record of the id_mapping  *)
(* of its get_id_property_name and of the default_id_property_name it was  *)
(* constructed with.                                                       *)
(***************************************************************************)
MaxInstances == 3

\* get_id_property_name.__call__; default: the module's DEFAULT_ID_PROPERTY_NAME
get_id_property_name(id_mapping, default, endpoint) ==
    IF endpoint \in DOMAIN id_mapping THEN id_mapping[endpoint]
    ELSE default.id_property_name

InitInstances ==
    /\ op = "import"
    /\ args = <<>>
    /\ result = Pending
    /\ dto = <<>>
    /\ dto0 = <<>>
    /\ relations = <<>>
    /\ InitModule

\* OpenApiLibCore(..., default_id_property_name=a)
OpenApiLibCoreInit ==
    LET \* the ID_MAPPING of the mappings file: none, and one with an entry
        IdMappings == {<<>>, [x \in {"/wagegroups"} |-> "wagegroup_id"]}
    IN
    LET IdPropertyNames == {"id", "identification", "uuid"}
    IN
    /\ Len(instances) < MaxInstances
    /\ \E default_id_property_name \in IdPropertyNames, id_mapping \in IdMappings :
           /\ instances' = Append(instances,
                                  [id_mapping |-> id_mapping,
                                   default_id_property_name |-> default_id_property_name])
           /\ DEFAULT_ID_PROPERTY_NAME' = [id_property_name |-> default_id_property_name]
           /\ op' = "__init__"
           /\ args' = [default_id_property_name |-> default_id_property_name]
           /\ result' = None
    /\ UNCHANGED <<dto, dto0, relations>>

\* instance.get_id_property_name(endpoint)
GetIdPropertyName ==
    LET MappedEndpoints == {"/wagegroups", "/employees"}
    IN
    /\ \E i \in 1..Len(instances), endpoint \in MappedEndpoints :
           /\ op' = "get_id_property_name"
           /\ args' = [instance |-> i, endpoint |-> endpoint]
           /\ result' = Str(get_id_property_name(instances[i].id_mapping,
                                                 DEFAULT_ID_PROPERTY_NAME, endpoint))
    /\ UNCHANGED <<dto, dto0, relations>>
    /\ NoInstance

NextInstances ==
    \/ OpenApiLibCoreInit
    \/ GetIdPropertyName

SpecInstances == InitInstances /\ [][NextInstances]_vars

(***************************************************************************)
(* Properties of Dto.get_invalidated_data.                                 *)
(***************************************************************************)
Returned == op = "get_invalidated_data" /\ ~IsRaise(result.ret)

\* C3: the mapping get_invalidated_data returns is never equal to the
\* mapping of the dto's property values taken before the call.
C3_InvalidatedDataDiffers == Returned => result.ret.v # args.before

\* C4: get_invalidated_data never mutates the dto: after any sequence of
\* calls every property value of the dto, the list-valued ones included, is
\* the value it had before the first call.
C4_DtoNotMutated == dto = dto0

\* the IdDependency relations declared for the status code on the property
\* the last call selected
SelectedIdDependency ==
    \E i \in 1..Len(relations) :
        /\ relations[i].cls = "IdDependency"
        /\ relations[i].property_name = result.selected
        /\ relations[i].error_code = args.status_code

Done(name) == op = name /\ result # Pending

Has(key) == key \in DOMAIN args.value_schema

\* C1: get_invalid_value never returns a member of the schema's enum, for
\* every enum of at least 2 entries, whatever the declared type, the current
\* value and the values_from_constraint list are.
C1_InvalidValueNotInEnum ==
    ( /\ Done("get_invalid_value")
      /\ Has("enum")
      /\ Len(args.value_schema.enum.v) >= 2
      /\ ~IsRaise(result.ret) )
    => ~PyIn(result.ret, args.value_schema.enum.v)

\* C2: get_valid_value returns the schema's const verbatim whenever const is
\* present, whatever enum, type and bounds the schema carries.
C2_ConstReturnedVerbatim ==
    (Done("get_valid_value") /\ Has("const")) => result = args.value_schema.const

IsNumberSchema == Has("type") /\ args.value_schema.type \in {Str("integer"), Str("number")}

\* the bound named by key is declared and its exclusive flag is absent or false
NonExclusive(key, flag) ==
    /\ Has(key)
    /\ Get(args.value_schema, flag, False) = False

C7_ExclusiveBoundItself ==
    (Done("get_value_out_of_bounds") /\ IsNumberSchema)
    => /\ (Has("minimum") /\ Get(args.value_schema, "exclusiveMinimum", False) = True)
          => result.ret = args.value_schema.minimum
       /\ ( /\ ~Has("minimum")
            /\ Has("exclusiveMinimum")
            /\ IsNum(args.value_schema.exclusiveMinimum) )
          => result.ret = args.value_schema.exclusiveMinimum
       /\ ( /\ ~Has("minimum")
            /\ ~Has("exclusiveMinimum")
            /\ Has("maximum")
            /\ Get(args.value_schema, "exclusiveMaximum", False) = True )
          => result.ret = args.value_schema.maximum
       /\ ( /\ ~Has("minimum")
            /\ ~Has("exclusiveMinimum")
            /\ ~Has("maximum")
            /\ Has("exclusiveMaximum")
            /\ IsNum(args.value_schema.exclusiveMaximum) )
          => result.ret = args.value_schema.exclusiveMaximum

\* the range of C8: minimum if given else the lowest integer of the format,
\* raised by 1 under a true exclusiveMinimum; maximum likewise
RangeLo ==
    LET lo == IF Has("minimum") THEN args.value_schema.minimum
              ELSE IF Get(args.value_schema, "format", None) = Str("int64")
                   THEN Wide(-1, 63, 0) ELSE I(-2147483647 - 1)
    IN  IF Get(args.value_schema, "exclusiveMinimum", False) = True THEN Inc(lo) ELSE lo

RangeHi ==
    LET hi == IF Has("maximum") THEN args.value_schema.maximum
              ELSE IF Get(args.value_schema, "format", None) = Str("int64")
                   THEN Wide(1, 63, -1) ELSE I(2147483647)
    IN  IF Get(args.value_schema, "exclusiveMaximum", False) = True THEN Dec(hi) ELSE hi

BooleanFlags ==
    /\ Get(args.value_schema, "exclusiveMinimum", False) \in {True, False}
    /\ Get(args.value_schema, "exclusiveMaximum", False) \in {True, False}

\* C8: get_random_int returns an integer of [lo, hi], lo being minimum or the
\* lowest int32 (int64 under format int64) and hi maximum or the highest one,
\* lo raised and hi lowered by 1 under a true boolean exclusive flag; a range
\* of a single point returns that point.
C8_RandomIntInRange ==
    (Done("get_random_int") /\ BooleanFlags /\ IntLeq(RangeLo, RangeHi))
    => /\ ~IsRaise(result)
       /\ IntLeq(RangeLo, result)
       /\ IntLeq(result, RangeHi)

\* a call on minimum -1 < maximum 1, both exclusive, that returned the one
\* integer strictly inside
C8_Witness ==
    /\ Done("get_random_int")
    /\ args.value_schema = [minimum |-> I(-1), maximum |-> I(1),
                            exclusiveMinimum |-> True, exclusiveMaximum |-> True]
    /\ result = I(0)

\* C9: with a numeric exclusiveMinimum n (resp. exclusiveMaximum n) and no
\* minimum (resp. maximum), the result of get_random_int is strictly greater
\* (resp. less) than n.
C9_NumericExclusiveBound ==
    (Done("get_random_int") /\ ~IsRaise(result))
    => /\ ( /\ ~Has("minimum")
            /\ Has("exclusiveMinimum")
            /\ args.value_schema.exclusiveMinimum.k = "int" )
          => IntLess(args.value_schema.exclusiveMinimum, result)
       /\ ( /\ ~Has("maximum")
            /\ Has("exclusiveMaximum")
            /\ args.value_schema.exclusiveMaximum.k = "int" )
          => IntLess(result, args.value_schema.exclusiveMaximum)

\* no composition keyword is left in a resolved schema, at any depth reached
\* through the dict values and through the entries of a types list
RECURSIVE NoComposition(_)
NoComposition(x) ==
    /\ DOMAIN x.v \cap CompositionKeys = {}
    /\ \A key \in DOMAIN x.v :
           /\ x.v[key].k = "dict" => NoComposition(x.v[key])
           /\ (key = "types" /\ x.v[key].k = "list")
              => \A i \in 1..Len(x.v[key].v) :
                     x.v[key].v[i].k = "dict" => NoComposition(x.v[key].v[i])

\* C10: after resolve_schema(s) no allOf, anyOf or oneOf key remains in the
\* result, at any depth reached through dict-valued entries or through the
\* entries of a types list.
C10_NoCompositionLeft ==
    (Done("resolve_schema") /\ ~IsRaise(result)) => NoComposition(result)

\* a schema with anyOf next to oneOf under an allOf part, resolved to a
\* schema that carries a types list
C10_Witness ==
    /\ Done("resolve_schema")
    /\ ~NoComposition(args.schema)
    /\ "allOf" \in DOMAIN args.schema.v
    /\ \E i \in 1..Len(args.schema.v.allOf.v) :
           {"anyOf", "oneOf"} \subseteq DOMAIN args.schema.v.allOf.v[i].v
    /\ ~IsRaise(result)
    /\ "types" \in DOMAIN result.v

\* the call was made on the result of an earlier call
Again == Done("resolve_schema") /\ "first" \in DOMAIN args

\* C11: resolve_schema is idempotent: resolve_schema called on the result of
\* resolve_schema(s) returns that result.
C11_ResolveIdempotent == Again => result = args.schema

\* a schema with composition keywords whose resolved form carries a types
\* list, resolved a second time
C11_Witness ==
    /\ Again
    /\ ~NoComposition(args.first)
    /\ "types" \in DOMAIN args.schema.v
    /\ "required" \in DOMAIN args.schema.v
    /\ result = args.schema
Resolved == op = "resolve_schema_in_memory" /\ result # Pending /\ ~IsRaise(result.r)

\* the call on a schema held in memory returns the value that resolve_schema
\* returns on the value of that schema
MemoryAgreesWithValues ==
    [][ResolveSchemaInMemory =>
         IF IsRaise(result'.r)
         THEN IsRaise(resolve_schema(ValueAt(args.heap, args.schema)))
         ELSE ValueAt(result'.h, result'.r)
                  = resolve_schema(ValueAt(args.heap, args.schema))]_vars

\* C12: resolve_schema never mutates its input: once it has returned, and
\* after the containers of the result were mutated, every dict and list
\* reached from the schema passed is as it was before the call.
C12_InputNotMutated ==
    Resolved => \A a \in Reach(args.heap, args.schema) : result.h[a] = args.heap[a]

\* a schema with an anyOf under its first allOf part that was resolved, and
\* the types list of the result changed afterwards
C12_Witness ==
    /\ Resolved
    /\ "allOf" \in DOMAIN args.heap[args.schema.v].v
    /\ "anyOf" \in DOMAIN args.heap[args.heap[args.heap[args.schema.v].v.allOf.v].v[1].v].v
    /\ "mutated" \in DOMAIN result
    /\ "types" \in DOMAIN result.h[result.r.v].v
    /\ result.h[result.r.v].v.types.v = result.mutated
\* the relation is one that the error code selects
Selects(r, code) ==
    \/ r.error_code = code
    \/ /\ r.cls = "PropertyValueConstraint"
       /\ r.invalid_value # NOT_SET
       /\ r.invalid_value_error_code = code

\* the places in the declared list of the relations the error code selects
SelectedPlaces == {j \in 1..Len(args.declared) : Selects(args.declared[j], args.error_code)}

\* C13: get_relations_for_error_code(code) and
\* get_parameter_relations_for_error_code(code) return, in declaration order,
\* exactly the relations with error_code == code and the
\* PropertyValueConstraints with an invalid_value other than NOT_SET and
\* invalid_value_error_code == code.
C13_RelationsForErrorCode ==
    op \in {"get_relations_for_error_code", "get_parameter_relations_for_error_code"}
    => /\ Len(result.ret) = Cardinality(SelectedPlaces)
       /\ \A j \in SelectedPlaces :
              result.ret[Cardinality({k \in SelectedPlaces : k <= j})] = args.declared[j]

\* a call that left out the relation declared between the two it returned
C13_Witness ==
    /\ op = "get_relations_for_error_code"
    /\ Len(args.declared) = 3
    /\ SelectedPlaces = {1, 3}
    /\ result.ret = <<args.declared[1], args.declared[3]>>

\* a call that returned a PropertyValueConstraint for the error code of its
\* invalid_value, which is not its error_code
C13_WitnessInvalidValue ==
    /\ op = "get_parameter_relations_for_error_code"
    /\ Len(result.ret) = 1
    /\ result.ret[1].cls = "PropertyValueConstraint"
    /\ result.ret[1].error_code # args.error_code
\* the candidate set of the last call of get_invalidated_data: the property
\* names of the relations the status code selects, PathPropertiesConstraint
\* left out, with the properties the schema declares when the status code is
\* the default one
CandidateSet ==
    LET resolved == resolve_schema(args.schema)
        declared == IF /\ ~IsRaise(resolved)
                       /\ "properties" \in DOMAIN resolved.v
                       /\ resolved.v.properties.k = "dict"
                    THEN DOMAIN resolved.v.properties.v ELSE {}
    IN  {relations[j].property_name :
            j \in {i \in 1..Len(relations) :
                      /\ Selects(relations[i], args.status_code)
                      /\ relations[i].cls # "PathPropertiesConstraint"}}
        \cup (IF args.status_code = invalid_property_default_response
              THEN declared ELSE {})

\* C14: get_invalidated_data raises ValueError exactly when its candidate set
\* is empty; in every other case it returns a mapping and raises no error.
C14_ValueErrorIffNoCandidate ==
    op = "get_invalidated_data"
    => /\ (result.ret = Raise("ValueError")) <=> (CandidateSet = {})
       /\ CandidateSet # {} => ~IsRaise(result.ret)
\* what each strategy of get_invalid_value yields on the arguments of the
\* call, None when it yields nothing
FromConstraint ==
    IF Len(args.values_from_constraint) > 0
    THEN get_invalid_value_from_constraint(args.values_from_constraint,
                                           args.value_schema["type"])
    ELSE None

FromEnum ==
    IF Has("enum") /\ Truthy(args.value_schema.enum)
    THEN get_invalid_value_from_enum(args.value_schema.enum.v, args.value_schema["type"])
    ELSE None

FromBounds ==
    {o.ret : o \in get_value_out_of_bounds(args.value_schema, args.current_value)}
        \ {None}

InvalidValueReturned ==
    Done("get_invalid_value") /\ Has("type") /\ ~IsRaise(result.ret)

\* C15: get_invalid_value applies its strategies in a fixed priority: the
\* value from the constraint list when it yields one, else the value from the
\* enum when it yields one, else the out-of-bounds value when there is one,
\* else the fallback on the type.
C15_StrategyPriority ==
    InvalidValueReturned
    => CASE FromConstraint # None -> result.ret = FromConstraint
         [] FromEnum # None -> result.ret = FromEnum
         [] FromBounds # {} -> result.ret \in FromBounds
         [] OTHER -> result.ret \in UuidSamples \cup {WrongTypeForString}

\* a call where the constraint list, the enum and a bound each yield a
\* different value, and the one of the constraint list was returned
C15_Witness ==
    /\ InvalidValueReturned
    /\ FromConstraint # None
    /\ FromEnum \notin {None, FromConstraint}
    /\ FromBounds # {}
    /\ FromConstraint \notin FromBounds
    /\ result.ret = FromConstraint
\* a call with no constraint list, no enum and no bound to violate
NothingToViolate ==
    /\ InvalidValueReturned
    /\ args.values_from_constraint = <<>>
    /\ ~Has("enum")
    /\ FromBounds = {}

\* the four wrong-typed values of the fallback for strings
WrongTypedValues == <<Dict([invalid |-> List(<<None, False>>)]), Str("null"), None, True>>

\* C16 as stated: with nothing to violate, the result for a string schema is
\* one of the four wrong-typed values, and a string for every other type.
C16_FallbackOneOfFour ==
    NothingToViolate
    => IF args.value_schema["type"] = Str("string")
       THEN result.ret \in Elems(WrongTypedValues)
       ELSE result.ret.k = "str"

\* C16 amended: with nothing to violate, the result for a string schema is
\* the list that holds the four wrong-typed values, in the order nested
\* object, "null", None, True; for every other type it is a string.
C16_FallbackListOfFour ==
    NothingToViolate
    => IF args.value_schema["type"] = Str("string")
       THEN result.ret = List(WrongTypedValues)
       ELSE result.ret.k = "str"

\* a call on a string schema without bounds that returned the list
C16_Witness ==
    /\ NothingToViolate
    /\ args.value_schema = [type |-> Str("string")]
    /\ result.ret.k = "list"
    /\ Len(result.ret.v) = 4

\* a call on an integer schema without bounds that returned a string
C16_WitnessOtherType ==
    /\ NothingToViolate
    /\ args.value_schema = [type |-> Str("integer")]
    /\ result.ret \in UuidSamples
IgnorePassed == IGNORE \in Elems(args.values_from_constraint)

\* C17: when IGNORE is an item of values_from_constraint,
\* get_invalid_value_from_constraint returns IGNORE for every value_type and
\* get_invalid_value returns IGNORE whatever the enum and the bounds of the
\* schema are.
C17_IgnorePropagated ==
    /\ (Done("get_invalid_value_from_constraint") /\ IgnorePassed) => result = IGNORE
    /\ (Done("get_invalid_value") /\ Has("type") /\ IgnorePassed) => result.ret = IGNORE

\* a call of get_invalid_value with IGNORE as the last of two constraint
\* values, on a schema with an enum and a bound, that returned IGNORE
C17_Witness ==
    /\ Done("get_invalid_value")
    /\ Len(args.values_from_constraint) = 2
    /\ args.values_from_constraint[2] = IGNORE
    /\ Has("enum")
    /\ Has("minimum")
    /\ result.ret = IGNORE

\* a call of get_invalid_value_from_constraint with IGNORE in the list and a
\* type that is not a json type, that returned IGNORE
C17_WitnessDirect ==
    /\ Done("get_invalid_value_from_constraint")
    /\ IgnorePassed
    /\ args.value_type = Str("irrelevant")
    /\ result = IGNORE

\* the values of the list are all of the json type named
ListOfType(values, value_type) ==
    /\ Len(values) > 0
    /\ \A i \in 1..Len(values) :
           CASE value_type = Str("boolean") -> values[i].k = "bool"
             [] value_type = Str("string") -> values[i].k = "str"
             [] value_type = Str("integer") -> values[i].k = "int"
             [] value_type = Str("number") -> values[i].k \in {"int", "float"}
             [] OTHER -> FALSE

\* C18: for a non-empty list without IGNORE of booleans, strings, integers or
\* numbers and the value_type of these, get_invalid_value_from_constraint
\* returns None or a value of that type that is not in the list: the negation
\* for one boolean, None for [True, False], never None for integers, and None
\* for strings only when all of them are empty.
C18_ConstraintValueExcluded ==
    ( /\ Done("get_invalid_value_from_constraint")
      /\ ListOfType(args.values_from_constraint, args.value_type) )
    => LET values == args.values_from_constraint
           value_type == args.value_type
       IN  /\ \/ result = None
              \/ /\ ListOfType(<<result>>, value_type)
                 /\ ~PyIn(result, values)
           /\ (value_type = Str("boolean") /\ Len(values) = 1)
              => result = Bool(~values[1].v)
           /\ values = <<True, False>> => result = None
           /\ value_type = Str("integer") => result # None
           /\ value_type = Str("string")
              => (result = None <=> \A i \in 1..Len(values) : values[i] = Str(""))

\* a call on the integers -1 and 1 that returned 4
C18_Witness ==
    /\ Done("get_invalid_value_from_constraint")
    /\ args.values_from_constraint = <<I(-1), I(1)>>
    /\ args.value_type = Str("integer")
    /\ result = I(4)
\* a call of get_value_out_of_bounds on an array schema with a list
ArrayCall ==
    /\ Done("get_value_out_of_bounds")
    /\ Has("type")
    /\ args.value_schema["type"] = Str("array")
    /\ args.current_value.k = "list"

\* C19: on an array schema with minItems n >= 1 and a current value of at
\* least n items, get_value_out_of_bounds returns the current value cut to
\* its first n - 1 items; otherwise, with maxItems n >= 1, it returns n + 1
\* items that start with the current items, every added item being one of
\* the current items.
C19_ArrayOutOfBounds ==
    ArrayCall
    => LET current == args.current_value.v
           min_items == Get(args.value_schema, "minItems", I(0)).v
           max_items == Get(args.value_schema, "maxItems", I(0)).v
       IN  /\ (min_items >= 1 /\ Len(current) >= min_items)
              => result.ret = List(SubSeq(current, 1, min_items - 1))
           /\ (min_items = 0 /\ max_items >= 1 /\ Len(current) \in 1..max_items)
              => /\ result.ret.k = "list"
                 /\ Len(result.ret.v) = max_items + 1
                 /\ SubSeq(result.ret.v, 1, Len(current)) = current
                 /\ Elems(result.ret.v) = Elems(current)
\* the keys of the schema of the call among the ones named
Declared(keys) == DOMAIN args.value_schema \cap keys

\* the schema of the call offers no bound to violate
NoViolatableBound ==
    LET value_type == args.value_schema["type"]
        zero(key) == args.value_schema[key] = I(0)
    IN  CASE value_type = Str("string") ->
               \/ Declared({"minLength", "maxLength"}) = {}
               \/ Declared({"minLength", "maxLength"}) = {"minLength"} /\ zero("minLength")
               \/ Declared({"minLength", "maxLength"}) = {"maxLength"} /\ zero("maxLength")
          [] value_type = Str("array") ->
               Declared({"minItems", "maxItems"}) = {"minItems"} /\ zero("minItems")
          [] value_type \in {Str("integer"), Str("number")} ->
               Declared({"minimum", "maximum", "exclusiveMinimum",
                         "exclusiveMaximum"}) = {}
          [] OTHER -> TRUE

\* C20: get_value_out_of_bounds returns None when the schema offers no bound
\* to violate: a string schema whose only bound is minLength 0 or maxLength 0,
\* an array schema whose only bound is minItems 0, an integer, number or
\* string schema without bounds, and a schema of any other type.
C20_NoneWithoutBound ==
    (Done("get_value_out_of_bounds") /\ Has("type") /\ NoViolatableBound)
    => result.ret = None

\* a call on a string schema whose only bound is maxLength 0, that returned
\* None
C20_Witness ==
    /\ Done("get_value_out_of_bounds")
    /\ args.value_schema = [type |-> Str("string"), maxLength |-> I(0)]
    /\ args.current_value = Str("ab")
    /\ result.ret = None

\* a call on an array schema whose only bound is minItems 0, that returned
\* None and left the list as it was
C20_WitnessArray ==
    /\ ArrayCall
    /\ Declared({"minItems", "maxItems"}) = {"minItems"}
    /\ args.value_schema.minItems = I(0)
    /\ Len(args.current_value.v) > 0
    /\ result = Out(None, args.current_value)
\* the json types of the alternatives of the types list of the call
TypesOf == [i \in 1..Len(args.value_schema.types.v) |->
               args.value_schema.types.v[i].v["type"]]

\* C21: get_invalid_value accepts a schema with a types list in place of a
\* type and raises nothing: for the types string and null it returns a value
\* that is not a string, for the type null alone it returns a string.
C21_TypesListAccepted ==
    (Done("get_invalid_value") /\ Has("types") /\ ~Has("type"))
    => /\ ~IsRaise(result.ret)
       /\ TypesOf = <<Str("string"), Str("null")>> => result.ret.k # "str"
       /\ TypesOf = <<Str("null")>> => result.ret.k = "str"
\* a call of get_valid_value that get_random_string answers: a string schema
\* without enum members, without pattern and without the format byte
RandomStringCall ==
    /\ Done("get_valid_value")
    /\ ~Truthy(Get(args.value_schema, "enum", None))
    /\ Has("type") /\ args.value_schema["type"] = Str("string")
    /\ ~Truthy(Get(args.value_schema, "pattern", None))
    /\ Get(args.value_schema, "format", None) # Str("byte")

MinLength == Get(args.value_schema, "minLength", I(0)).v

MaxLength == Get(args.value_schema, "maxLength", I(36)).v

C22_WitnessEmpty ==
    RandomStringCall /\ MaxLength = 0 /\ MinLength = 0 /\ result.v = ""
\* a finished call of get_valid_value on a schema with enum members and
\* without const
EnumCall ==
    /\ Done("get_valid_value")
    /\ Has("enum") /\ Len(args.value_schema.enum.v) > 0
    /\ ~Has("const")

\* C23: get_valid_value returns a member of enum for every schema with a
\* non-empty enum and no const, whatever its type and bounds are.
C23_ValidValueFromEnum ==
    EnumCall => result \in Elems(args.value_schema.enum.v)

\* enum [foo, bar] next to type number and minimum -1 yields foo or bar
C23_Witness ==
    /\ EnumCall
    /\ args.value_schema.enum = List(<<Str("foo"), Str("bar")>>)
    /\ Has("type") /\ args.value_schema["type"] = Str("number")
    /\ Has("minimum") /\ args.value_schema.minimum = I(-1)
    /\ result \in {Str("foo"), Str("bar")}
\* the effective bounds of a get_random_float call, in units of 1 / FloatScale:
\* -1 and 1 when no bound is given, 1 beyond the single given bound
EffectiveMinimum ==
    CASE Has("minimum") -> ToQ(args.value_schema.minimum)
      [] Has("maximum") -> ToQ(args.value_schema.maximum) - FloatScale
      [] OTHER -> -FloatScale

EffectiveMaximum ==
    CASE Has("maximum") -> ToQ(args.value_schema.maximum)
      [] Has("minimum") -> ToQ(args.value_schema.minimum) + FloatScale
      [] OTHER -> FloatScale

ExclusiveFlagSet ==
    \/ Truthy(Get(args.value_schema, "exclusiveMinimum", False))
    \/ Truthy(Get(args.value_schema, "exclusiveMaximum", False))

InvalidFloatRange ==
    \/ Has("minimum") /\ Has("maximum") /\ EffectiveMaximum < EffectiveMinimum
    \/ EffectiveMinimum = EffectiveMaximum /\ ExclusiveFlagSet

C24_WitnessRaise ==
    /\ Done("get_random_float")
    /\ args.value_schema = [minimum |-> I(1), maximum |-> I(1), exclusiveMaximum |-> True]
    /\ result = Raise("ValueError")
\* the parts of the parameterized url that matches the url of the call
ParameterizedParts ==
    split(args.base_url \o get_parameterized_endpoint_from_url(
                               args.base_url, args.paths, args.valid_url).v)

IsPathParameter(part) == startswith(part, "{") /\ endswith(part, "}")

\* a finished call of get_invalidated_url on an url that matches an endpoint
UrlCall ==
    /\ Done("get_invalidated_url")
    /\ ~IsRaise(get_parameterized_endpoint_from_url(
                    args.base_url, args.paths, args.valid_url))

\* C25: get_invalidated_url returns the valid_url with every part that is a
\* path parameter of the matching endpoint replaced by a random uuid and
\* every other part unchanged; it raises ValueError when the endpoint has no
\* path parameter.
C25_AllPathParametersReplaced ==
    UrlCall
    => IF \A i \in 1..Len(ParameterizedParts) : ~IsPathParameter(ParameterizedParts[i])
       THEN result = Raise("ValueError")
       ELSE /\ ~IsRaise(result)
            /\ Len(split(result.v)) = Len(ParameterizedParts)
            /\ \A i \in 1..Len(ParameterizedParts) :
                  IF IsPathParameter(ParameterizedParts[i])
                  THEN split(result.v)[i] \in UuidHexSamples
                  ELSE split(result.v)[i] = split(args.valid_url)[i]
\* the merge of two dicts that recurses into the dicts they share: nested
\* keys of both sides at every depth, lists first then second, first's scalar
RECURSIVE MergedAtEveryDepth(_, _)
MergedAtEveryDepth(first, second) ==
    Dict([key \in DOMAIN first.v \cup DOMAIN second.v |->
            CASE key \notin DOMAIN first.v -> second.v[key]
              [] key \notin DOMAIN second.v -> first.v[key]
              [] first.v[key].k = "dict" /\ second.v[key].k = "dict" ->
                   MergedAtEveryDepth(first.v[key], second.v[key])
              [] first.v[key].k = "list" /\ second.v[key].k = "list" ->
                   List(first.v[key].v \o second.v[key].v)
              [] OTHER -> first.v[key]])

\* C26: merge_schemas(first, second) merges the dict values of a shared key
\* recursively, keeping the nested keys of both sides at every depth,
\* concatenates list values first then second, keeps first's scalar, adds the
\* keys only second has and keeps the keys only first has.
C26_MergedRecursively ==
    (Done("merge_schemas") /\ ~IsRaise(result))
    => result = MergedAtEveryDepth(args.first, args.second)
\* relation i is a PropertyValueConstraint on the selected property that
\* holds for the status code of the call and has values
SelectedConstraint(i) ==
    /\ relations[i].cls = "PropertyValueConstraint"
    /\ relations[i].property_name = result.selected
    /\ relations[i].error_code = args.status_code
    /\ Len(relations[i].values) > 0

\* a PropertyValueConstraint names an invalid_value for the selected property
\* and the status code of the call
ExplicitInvalidValue ==
    \E i \in 1..Len(relations) :
        /\ relations[i].cls = "PropertyValueConstraint"
        /\ relations[i].property_name = result.selected
        /\ relations[i].invalid_value_error_code = args.status_code
        /\ relations[i].invalid_value # NOT_SET

\* C27: when get_invalidated_data invalidates a property through a
\* PropertyValueConstraint on it that has no explicit invalid_value for the
\* status code, the value it assigns to the property is not a member of the
\* values of that constraint.
C27_AssignedValueNotAllowed ==
    (Returned /\ ~SelectedIdDependency /\ ~ExplicitInvalidValue)
    => \A i \in 1..Len(relations) :
           SelectedConstraint(i)
           => result.ret.v[result.selected] \notin Elems(relations[i].values)
\* the names left for the call: the parameters the status code can be caused
\* with, the names absent from the parameters and the ignored names excluded
Eligible ==
    LET parameters == args.request_data.parameters.v
        named == {j \in 1..Len(relations) :
                     /\ Selects(relations[j], args.status_code)
                     /\ relations[j].cls = "PropertyValueConstraint"}
        ignored == {relations[j].property_name : j \in {i \in named :
                        /\ relations[i].invalid_value_error_code = args.status_code
                        /\ relations[i].invalid_value = IGNORE}}
        by_type == IF args.status_code = invalid_property_default_response
                   THEN {parameters[i].v["name"].v : i \in {j \in 1..Len(parameters) :
                            can_be_invalidated(parameters[j]) = True}}
                   ELSE {}
    IN  ((by_type \cup {relations[j].property_name : j \in named})
         \cap {parameters[i].v["name"].v : i \in 1..Len(parameters)}) \ ignored

\* C28: get_invalidated_parameters fails with ValueError only; a relation on
\* a name absent from the parameters does not fail the call, and when no
\* parameter is left for the status code the outcome is the ValueError.
C28_OnlyNoTargetError ==
    Done("get_invalidated_parameters")
    => /\ IsRaise(result) => result = Raise("ValueError")
       /\ Eligible = {} => result = Raise("ValueError")
Constructed == op = "request_data"

\* the containers of request_data
RequestContainers ==
    UNION {Reach(result.h, result.request_data[f]) : f \in FieldNames}

\* the call in memory returns what the call on values returns
RequestMemoryAgreesWithValues ==
    [][GetInvalidatedParametersInMemory =>
         \E status_code \in {422, 403} :
             LET r == result'.returned[Len(result'.returned)]
                 by_value ==
                     get_invalidated_parameters(
                         invalid_property_default_response,
                         [parameters |-> ValueAt(result.h, result.request_data.parameters),
                          params |-> ValueAt(result.h, result.request_data.params),
                          headers |-> ValueAt(result.h, result.request_data.headers)],
                         relations, status_code)
             IN  IF IsRaise(r) THEN r \in by_value
                 ELSE Tuple(<<ValueAt(result'.h, r.v[1]), ValueAt(result'.h, r.v[2])>>)
                          \in by_value]_vars

\* C29: after construction, after any calls of get_invalidated_parameters and
\* any mutation by the caller of a container it passed in or got back, the
\* dto_schema, parameters, params and headers of request_data and its cached
\* sets of names are as they were at construction; the params and headers a
\* call returned share no container with request_data or with what another
\* call returned.
C29_RequestDataIsolated ==
    Constructed
    => /\ \A f \in FieldNames :
              ValueAt(result.h, result.request_data[f]) = ValueAt(args.heap, args[f])
       /\ result.cache.params \in
              {NotCached, that_can_be_invalidated(ValueAt(args.heap, args.parameters).v, "query")}
       /\ result.cache.headers \in
              {NotCached, that_can_be_invalidated(ValueAt(args.heap, args.parameters).v, "header")}
       /\ \A i \in 1..Len(result.returned) :
              /\ ReturnedContainers(result.h, result.returned[i]) \cap RequestContainers = {}
              /\ \A j \in 1..Len(result.returned) :
                     i # j => ReturnedContainers(result.h, result.returned[i])
                                  \cap ReturnedContainers(result.h, result.returned[j]) = {}
\* C30: the default id property name is fixed once given: a lookup on an
\* instance constructed with default_id_property_name a, for an endpoint
\* that its id mapping does not hold, returns a, also after further instances
\* were constructed with another default.
C30_DefaultIdPropertyNameKept ==
    (op = "get_id_property_name"
     /\ args.endpoint \notin DOMAIN instances[args.instance].id_mapping)
    => result = Str(instances[args.instance].default_id_property_name)
====
